---------------------------- MODULE Spec2Model ----------------------------
(***************************************************************************)
(* A model of the Multi-Vehicle-Routing backend: the TTL cache             *)
(* (core/cache.py), the matrix endpoints (api/adapters_routes.py) with the *)
(* road-graph cache of the local-graph adapter, and the solve endpoint     *)
(* (api/solver_routes.py) with its engines and the metrics enricher.       *)
(*                                                                         *)
(* The module holds several specifications over one set of variables:      *)
(*   SpecCache   coroutines calling TTLCache.get / set / aget_or_set       *)
(*   SpecOrs     tasks of the event loop serving POST /distance-matrix/ors *)
(*   SpecMatrix  tasks of the event loop serving POST /distance-matrix     *)
(*   SpecSolve   solve requests, one handler run per request               *)
(*   SpecRegistry  calls of the two registries and of the plugin loader     *)
(*   SpecTw      one node's time window and service time on their way from  *)
(*               the request to the engine                                  *)
(*   SpecAdapters  one call of a matrix adapter and the provider's answer   *)
(*   SpecNn      one call of the nearest-neighbour fallback tour            *)
(*   SpecLoaders one call of a benchmark loader, or a load-write-load trip  *)
(*   SpecIndexer one call of the dataset index: list_files or find_pair     *)
(* Each specification leaves the variables of the others at their initial  *)
(* values.                                                                 *)
(***************************************************************************)
EXTENDS Integers, Sequences, FiniteSets, TLC

VARIABLES
    store,          \* TTLCache._store: the entries in dict (insertion) order
    now,            \* time.time()
    co,             \* SpecCache: per coroutine, the call it is in
    store0,         \* SpecCache: the store when the current round of calls began
    now0,           \* SpecCache: the time when the current round of calls began
    builderCalls,   \* SpecCache: per key, builders started in the current round
    task,           \* SpecOrs, SpecMatrix: per task of the event loop, its request
    adapterCalls,   \* SpecOrs: per cache key, get_matrix calls in the current round
    orsApiKey,      \* SpecOrs, SpecMatrix: whether ORS_API_KEY is set
    graphs,         \* SpecMatrix: the lru_cache of _build_graph, least recent first
    graphBuilds,    \* SpecMatrix: per graph key, graphs constructed in the round
    solvePc,        \* SpecSolve: where the solve request is
    solveReq,       \* SpecSolve: the SolveRequest being handled
    solveResp,      \* SpecSolve: what the handler did and answered
    factories,          \* AdapterFactoryRegistry._factories: key -> factory
    adaptersRegistered, \* core.register_adapters._registered
    solverRegistry,     \* services.solver_factory._solver_registry: key -> ctor
    solversRegistered,  \* services.solver_factory._registered
    environ,            \* SpecRegistry: what the loader reads from its environment
    regLog,             \* SpecRegistry: the calls made so far, with their outcomes
    twCase,             \* SpecTw: the engine named and one node's window and service time
    twOut,              \* SpecTw: what the engine works with for that node
    fnCall,             \* the function called and its arguments
    fnOut               \* what the call returned or raised

\* the variables of SpecRegistry
regVars == <<factories, adaptersRegistered, solverRegistry, solversRegistered, environ, regLog>>

\* the variables of SpecTw
twVars == <<twCase, twOut>>

\* the variables of the specifications of single calls
fnVars == <<fnCall, fnOut>>

vars == <<store, now, co, store0, now0, builderCalls, task, adapterCalls, orsApiKey,
          graphs, graphBuilds, solvePc, solveReq, solveResp, regVars, twVars, fnVars>>

\* the variables each specification leaves alone
notCache == <<task, adapterCalls, orsApiKey, graphs, graphBuilds, solvePc, solveReq, solveResp,
              regVars, twVars, fnVars>>
notOrs == <<co, builderCalls, graphs, graphBuilds, solvePc, solveReq, solveResp, regVars,
            twVars, fnVars>>
notMatrix == <<store, now, store0, now0, co, builderCalls, adapterCalls, solvePc, solveReq, solveResp,
               regVars, twVars, fnVars>>
notSolve == <<store, now, store0, now0, co, builderCalls, task, adapterCalls, orsApiKey,
              graphs, graphBuilds, regVars, twVars, fnVars>>
notRegistry == <<store, now, store0, now0, co, builderCalls, task, adapterCalls, orsApiKey,
                 graphs, graphBuilds, solvePc, solveReq, solveResp, twVars, fnVars>>
notTw == <<store, now, store0, now0, co, builderCalls, task, adapterCalls, orsApiKey,
           graphs, graphBuilds, solvePc, solveReq, solveResp, regVars, fnVars>>
notFn == <<store, now, store0, now0, co, builderCalls, task, adapterCalls, orsApiKey,
           graphs, graphBuilds, solvePc, solveReq, solveResp, regVars, twVars>>

\* a registry with no name bound
EmptyRegistry == [k \in {} |-> "none"]

\* the registries as the other specifications leave them
RegistryUnused ==
    /\ factories = EmptyRegistry
    /\ adaptersRegistered = FALSE
    /\ solverRegistry = EmptyRegistry
    /\ solversRegistered = FALSE
    /\ environ = <<>>
    /\ regLog = <<>>

\* the time-window variables as the other specifications leave them
FnUnused ==
    /\ fnCall = <<>>
    /\ fnOut = <<>>

TwUnused ==
    /\ twCase = <<>>
    /\ twOut = <<>>

---------------------------------------------------------------------------
(* Bounds of the model *)

MaxNow == 3         \* the clock runs from 0 to MaxNow
NumKeys == 3        \* cache keys 1..NumKeys, more than Maxsize
NumVals == 2        \* cached values 1..NumVals
NumCoroutines == 2  \* concurrent callers of the cache

(* Constructor arguments of the cache under test: TTLCache(ttl_seconds, maxsize) *)
Ttl == 1
Maxsize == 2

Keys == 1..NumKeys
Vals == 1..NumVals
Coroutines == 1..NumCoroutines
None == 0   \* Python's None, the miss marker of get, among the values 1..NumVals

---------------------------------------------------------------------------
(* core/cache.py: TTLCache *)

\* position of key in the dict, 0 when absent (dict lookup)
IndexOf(st, key) ==
    IF \E i \in 1..Len(st) : st[i].key = key
    THEN CHOOSE i \in 1..Len(st) : st[i].key = key
    ELSE 0

\* dict.pop(key): the entries without position i
RemoveAt(st, i) == [j \in 1..(Len(st) - 1) |-> IF j < i THEN st[j] ELSE st[j + 1]]

\* a variant of get that hands out the stored value whatever its expiry
TTLCache_get_ignoring_expiry(st, key, t) ==
    LET i == IndexOf(st, key) IN
    IF i = 0 THEN [store |-> st, ret |-> None]
    ELSE [store |-> st, ret |-> st[i].val]

\* TTLCache.get at time t: the store after the call and the value returned
TTLCache_get(st, key, t) ==
    LET i == IndexOf(st, key) IN
    IF i = 0 THEN [store |-> st, ret |-> None]
    ELSE IF st[i].exp < t THEN [store |-> RemoveAt(st, i), ret |-> None]
    ELSE [store |-> st, ret |-> st[i].val]

\* a variant of set that never makes room
TTLCache_set_without_eviction(st, key, val, t) ==
    LET i == IndexOf(st, key)
        rec == [key |-> key, exp |-> t + Ttl, val |-> val]
    IN IF i = 0 THEN Append(st, rec) ELSE [st EXCEPT ![i] = rec]

\* a variant of set that makes room by dropping the newest entry
TTLCache_set_evicting_newest(st, key, val, t) ==
    LET st1 == IF Len(st) >= Maxsize THEN SubSeq(st, 1, Len(st) - 1) ELSE st
        i == IndexOf(st1, key)
        rec == [key |-> key, exp |-> t + Ttl, val |-> val]
    IN IF i = 0 THEN Append(st1, rec) ELSE [st1 EXCEPT ![i] = rec]

\* TTLCache.set at time t: the store after the call
TTLCache_set(st, key, val, t) ==
    LET st1 == IF Len(st) >= Maxsize THEN Tail(st) ELSE st
        i == IndexOf(st1, key)
        rec == [key |-> key, exp |-> t + Ttl, val |-> val]
    IN IF i = 0 THEN Append(st1, rec) ELSE [st1 EXCEPT ![i] = rec]

---------------------------------------------------------------------------
(* SpecCache: coroutines of one event loop calling the cache.  get and set *)
(* have no await and run in one step; aget_or_set suspends at             *)
(* `await creator()` between its get and its set.                          *)

IdleCo == [pc |-> "idle", kind |-> "none", key |-> 0, arg |-> 0, ret |-> None,
           tInv |-> 0, tRes |-> 0]

AllDone == \A c \in Coroutines : co[c].pc = "done"

\* a coroutine calls cache.get(key)
CallGet(c, key) ==
    /\ co[c].pc = "idle"
    /\ LET r == TTLCache_get(store, key, now) IN
        /\ store' = r.store
        /\ co' = [co EXCEPT ![c] = [pc |-> "done", kind |-> "get", key |-> key,
                                    arg |-> 0, ret |-> r.ret,
                                    tInv |-> now, tRes |-> now]]
    /\ UNCHANGED <<now, store0, now0, builderCalls>>
    /\ UNCHANGED notCache

\* a coroutine calls cache.set(key, val)
CallSet(c, key, val) ==
    /\ co[c].pc = "idle"
    /\ store' = TTLCache_set(store, key, val, now)
    /\ co' = [co EXCEPT ![c] = [pc |-> "done", kind |-> "set", key |-> key,
                                arg |-> val, ret |-> None,
                                tInv |-> now, tRes |-> now]]
    /\ UNCHANGED <<now, store0, now0, builderCalls>>
    /\ UNCHANGED notCache

\* aget_or_set up to its await: the get, then return the hit or start the builder
AgetStart(c, key) ==
    /\ co[c].pc = "idle"
    /\ LET r == TTLCache_get(store, key, now) IN
        /\ store' = r.store
        /\ IF r.ret # None
           THEN /\ co' = [co EXCEPT ![c] = [pc |-> "done", kind |-> "aget",
                                            key |-> key, arg |-> 0, ret |-> r.ret,
                                            tInv |-> now, tRes |-> now]]
                /\ UNCHANGED builderCalls
           ELSE /\ co' = [co EXCEPT ![c] = [pc |-> "awaiting", kind |-> "aget",
                                            key |-> key, arg |-> 0, ret |-> None,
                                            tInv |-> now, tRes |-> now]]
                /\ builderCalls' = [builderCalls EXCEPT ![key] = @ + 1]
    /\ UNCHANGED <<now, store0, now0>>
    /\ UNCHANGED notCache

\* aget_or_set after its await: the builder returned val; set and return it
AgetResume(c, val) ==
    /\ co[c].pc = "awaiting"
    /\ store' = TTLCache_set(store, co[c].key, val, now)
    /\ co' = [co EXCEPT ![c].pc = "done", ![c].arg = val, ![c].ret = val,
                        ![c].tRes = now]
    /\ UNCHANGED <<now, store0, now0, builderCalls>>
    /\ UNCHANGED notCache

\* the clock advances
Tick ==
    /\ now < MaxNow
    /\ now' = now + 1
    /\ UNCHANGED <<store, co, store0, now0, builderCalls>>
    /\ UNCHANGED notCache

\* every call of the round has returned: the callers issue a new round of calls
NewRound ==
    /\ AllDone
    /\ co' = [c \in Coroutines |-> IdleCo]
    /\ store0' = store
    /\ now0' = now
    /\ builderCalls' = [k \in Keys |-> 0]
    /\ UNCHANGED <<store, now>>
    /\ UNCHANGED notCache

InitCache ==
    /\ store = <<>>
    /\ now = 0
    /\ co = [c \in Coroutines |-> IdleCo]
    /\ store0 = <<>>
    /\ now0 = 0
    /\ builderCalls = [k \in Keys |-> 0]
    /\ task = <<>>
    /\ adapterCalls = <<>>
    /\ orsApiKey = FALSE
    /\ graphs = <<>>
    /\ graphBuilds = <<>>
    /\ solvePc = "idle"
    /\ solveReq = <<>>
    /\ solveResp = <<>>
    /\ RegistryUnused
    /\ TwUnused
    /\ FnUnused

NextCache ==
    \/ \E c \in Coroutines, key \in Keys : CallGet(c, key)
    \/ \E c \in Coroutines, key \in Keys, val \in Vals : CallSet(c, key, val)
    \/ \E c \in Coroutines, key \in Keys : AgetStart(c, key)
    \/ \E c \in Coroutines, val \in Vals : AgetResume(c, val)
    \/ Tick
    \/ NewRound

SpecCache == InitCache /\ [][NextCache]_vars

---------------------------------------------------------------------------
(* What one call does when it runs alone, in one step, at time t; b is the  *)
(* value a builder returns.  Used to compare a round of concurrent calls    *)
(* with the sequential orders of the same calls.                            *)

SeqApply(st, call, t, b) ==
    IF call.kind = "get" THEN TTLCache_get(st, call.key, t)
    ELSE IF call.kind = "set"
    THEN [store |-> TTLCache_set(st, call.key, call.arg, t), ret |-> None]
    ELSE LET r == TTLCache_get(st, call.key, t) IN
         IF r.ret # None THEN r
         ELSE [store |-> TTLCache_set(r.store, call.key, b, t), ret |-> b]

Orders == {o \in [Coroutines -> Coroutines] : \A c, d \in Coroutines : o[c] = o[d] => c = d}

Larger(a, b) == IF a >= b THEN a ELSE b

\* the calls order[i..], run one after the other from st at times >= tmin inside
\* each call's own interval, return what the round returned and end in `store`
RECURSIVE SeqExplains(_, _, _, _)
SeqExplains(st, order, i, tmin) ==
    IF i > NumCoroutines THEN st = store
    ELSE LET call == co[order[i]] IN
         \E t \in Larger(tmin, call.tInv)..call.tRes, b \in Vals :
            LET r == SeqApply(st, call, t, b) IN
            /\ r.ret = call.ret
            /\ SeqExplains(r.store, order, i + 1, t)

---------------------------------------------------------------------------
(* Claims about the cache under concurrent callers *)

\* C1: concurrent aget_or_set calls on one key that has no unexpired entry await
\* the builder at most once for that key (no time passes in the round, so an entry
\* set in the round cannot have expired)
C1_BuilderAtMostOnce ==
    \A k \in Keys : (now = now0) => builderCalls[k] <= 1

\* C3: every round of concurrent get / set / aget_or_set calls leaves the store and
\* returns results identical to those of some sequential order of the same calls
C3_OperationsAtomic ==
    AllDone => \E order \in Orders : SeqExplains(store0, order, 1, now0)

---------------------------------------------------------------------------
(* api/adapters_routes.py: POST /distance-matrix/ors (ors_matrix).         *)
(* Coordinates are numbers in units of 1e-7 degree, one number standing    *)
(* for a (lat, lon) pair; origins and destinations are lists of them.  A   *)
(* missing `destinations` is the empty list: the code reads it through     *)
(* `body.destinations or body.origins`, which treats None and [] alike.    *)

NumTasks == 2       \* concurrent requests
Tasks == 1..NumTasks
Coords == {10, 11, 20}
CoordLists == {<<>>} \cup {<<c>> : c \in Coords}
Modes == {"driving", "walking"}

\* f"{c.lon:.6f},{c.lat:.6f}": the coordinate rounded to 1e-6 degree (no member
\* of Coords lies halfway between two multiples of 10)
Fmt6(c) == (c + 5) \div 10

\* the ";".join of the formatted coordinates
JoinFmt6(cs) == [i \in 1..Len(cs) |-> Fmt6(cs[i])]

\* _mk_key(body); the parameters are the body's default in every request
mk_key(body) ==
    LET dsrc == IF body.destinations # <<>> THEN body.destinations ELSE body.origins
    IN <<"ors", body.mode, JoinFmt6(body.origins), JoinFmt6(dsrc)>>

\* the requests drawn: `destinations` left out or a copy of the origins
OrsBodies == {b \in [origins : CoordLists, destinations : CoordLists, mode : {"driving"}] :
                b.destinations \in {<<>>, b.origins}}
OrsKeys == {mk_key(b) : b \in OrsBodies}

\* how a call of the upstream provider can fail: httpx raises a timeout, the
\* answer has a non-2xx status (raise_for_status), or resp.json() cannot parse it
UpstreamFailures == {"timeout", "non_2xx", "unparseable"}

\* steps: what the handler has done so far, in order; upstream: how the call of
\* the provider ended ("none" while there was no call or no answer yet)
IdleTask == [pc |-> "idle", endpoint |-> "none", key |-> <<>>,
             status |-> 0, data |-> None, steps |-> <<>>, upstream |-> "none"]

TasksDone == \A t \in Tasks : task[t].pc = "done"

\* what ORSDistanceMatrixAdapter.get_matrix does before its first await:
\* "raise" when origins or destinations is empty, else "post" (the HTTP call)
ORS_get_matrix_enter(origins, destinations) ==
    IF origins = <<>> \/ destinations = <<>> THEN "raise" ELSE "post"

\* ors_matrix up to its first suspension: the key check, the cache lookup, and on
\* a miss the adapter call as far as its HTTP request
OrsStart(t, body) ==
    /\ task[t].pc = "idle"
    /\ IF ~orsApiKey
       THEN /\ task' = [task EXCEPT ![t] = [IdleTask EXCEPT !.pc = "done",
                            !.endpoint = "ors", !.status = 500]]
            /\ UNCHANGED <<store, adapterCalls>>
       ELSE LET key == mk_key(body)
                r == TTLCache_get(store, key, now)
                dsrc == IF body.destinations # <<>> THEN body.destinations
                        ELSE body.origins
            IN
            /\ store' = r.store
            /\ IF r.ret # None
               THEN /\ task' = [task EXCEPT ![t] = [IdleTask EXCEPT !.pc = "done",
                                    !.endpoint = "ors", !.key = key, !.status = 200,
                                    !.data = r.ret, !.steps = <<"cache_hit">>]]
                    /\ UNCHANGED adapterCalls
               ELSE /\ adapterCalls' = [adapterCalls EXCEPT ![key] = @ + 1]
                    /\ IF ORS_get_matrix_enter(body.origins, dsrc) = "raise"
                       THEN task' = [task EXCEPT ![t] = [IdleTask EXCEPT !.pc = "done",
                                    !.endpoint = "ors", !.key = key, !.status = 400,
                                    !.steps = <<"cache_miss", "resolve", "invoke">>]]
                       ELSE task' = [task EXCEPT ![t] = [IdleTask EXCEPT !.pc = "awaiting",
                                    !.endpoint = "ors", !.key = key,
                                    !.steps = <<"cache_miss", "resolve", "invoke">>]]
    /\ UNCHANGED <<now, store0, now0, orsApiKey>>
    /\ UNCHANGED notOrs

\* ors_matrix after the await, the provider having answered with the matrix val:
\* the response is built, stored under the key and returned
OrsResumeOk(t, val) ==
    /\ task[t].pc = "awaiting"
    /\ task[t].endpoint = "ors"
    /\ store' = TTLCache_set(store, task[t].key, val, now)
    /\ task' = [task EXCEPT ![t].pc = "done", ![t].status = 200, ![t].data = val,
                            ![t].steps = Append(@, "cache_set"), ![t].upstream = "ok"]
    /\ UNCHANGED <<now, store0, now0, adapterCalls, orsApiKey>>
    /\ UNCHANGED notOrs

\* ors_matrix after the await, the provider call having failed (a timeout, a
\* non-2xx status, an unparseable body): get_matrix raises
\* DistanceMatrixRequestError, which ors_matrix answers with 400
OrsResumeFail(t, failure) ==
    /\ task[t].pc = "awaiting"
    /\ task[t].endpoint = "ors"
    /\ task' = [task EXCEPT ![t].pc = "done", ![t].status = 400, ![t].upstream = failure]
    /\ UNCHANGED <<store, now, store0, now0, adapterCalls, orsApiKey>>
    /\ UNCHANGED notOrs

\* every request of the round is answered: a new round of requests arrives
OrsNewRound ==
    /\ TasksDone
    /\ task' = [t \in Tasks |-> IdleTask]
    /\ adapterCalls' = [k \in OrsKeys |-> 0]
    /\ store0' = store
    /\ now0' = now
    /\ UNCHANGED <<store, now, orsApiKey>>
    /\ UNCHANGED notOrs

InitOrs ==
    /\ store = <<>>
    /\ now = 0
    /\ store0 = <<>>
    /\ now0 = 0
    /\ task = [t \in Tasks |-> IdleTask]
    /\ adapterCalls = [k \in OrsKeys |-> 0]
    /\ orsApiKey \in BOOLEAN
    /\ co = <<>>
    /\ builderCalls = <<>>
    /\ graphs = <<>>
    /\ graphBuilds = <<>>
    /\ solvePc = "idle"
    /\ solveReq = <<>>
    /\ solveResp = <<>>
    /\ RegistryUnused
    /\ TwUnused
    /\ FnUnused

NextOrs ==
    \/ \E t \in Tasks, body \in OrsBodies : OrsStart(t, body)
    \/ \E t \in Tasks, val \in Vals : OrsResumeOk(t, val)
    \/ \E t \in Tasks, failure \in UpstreamFailures : OrsResumeFail(t, failure)
    \/ OrsNewRound
    \/ Tick

SpecOrs == InitOrs /\ [][NextOrs]_vars

\* the requests of the current round that produced the cache key k
ReqsOf(k) == {t \in Tasks : task[t].pc # "idle" /\ task[t].endpoint = "ors" /\ task[t].key = k}

\* C2: the requests of a round to the ORS endpoint that produce one cache key, not
\* cached when the round began, the round lasting no longer than the TTL: once all
\* of them are answered with success, the adapter's get_matrix has been invoked
\* exactly once for that key
C2_AdapterExactlyOnce ==
    \A k \in OrsKeys :
        (/\ now - now0 <= Ttl
         /\ IndexOf(store0, k) = 0
         /\ ReqsOf(k) # {}
         /\ \A t \in ReqsOf(k) : task[t].pc = "done" /\ task[t].status = 200)
        => adapterCalls[k] = 1

---------------------------------------------------------------------------
(* api/adapters_routes.py: POST /distance-matrix (get_distance_matrix) with *)
(* the local-graph adapter (adapters/online/osm_graph_adapter.py) and the   *)
(* ORS adapter.  The handler is a coroutine of the event loop: it runs      *)
(* without interruption except at `await result`, which it reaches only for *)
(* an adapter whose get_matrix is a coroutine function (ORS).               *)

LruMaxsize == 64        \* @lru_cache(maxsize=64)
BufferM == 3000         \* OSM_GRAPH_BUFFER_M

GdmCoords == {10, 20}
AdapterNames == {"osm_graph", " OSM_Graph ", "openrouteservice", "nope"}
GdmReqs == [adapter : AdapterNames, origins : {<<c>> : c \in GdmCoords},
            destinations : {<<10>>}, mode : Modes]

\* name.lower().strip() on the names drawn
lower_strip(name) == IF name = " OSM_Graph " THEN "osm_graph" ELSE name

\* the names register_adapters() binds: osm_graph by default, openrouteservice
\* when an ORS key is configured
RegisteredAdapters ==
    {"osm_graph", "euclidean"} \cup (IF orsApiKey THEN {"openrouteservice"} ELSE {})

RECURSIVE SumSeq(_)
SumSeq(q) == IF q = <<>> THEN 0 ELSE Head(q) + SumSeq(Tail(q))

\* _center(coords): the mean, kept as the fraction <<sum, count>>; every request
\* drawn has two coordinates, so equal means are equal pairs
center(coords) == <<SumSeq(coords), Len(coords)>>

\* OsmGraphAdapter.build: the network type chosen from the mode
network_type_of(mode) ==
    IF mode \in {"walk", "walking"} THEN "walk"
    ELSE IF mode \in {"bike", "cycling", "bicycle"} THEN "bike"
    ELSE "drive"

\* the arguments of _build_graph for a request, the key of its lru_cache
graph_key(req) ==
    <<center(req.origins \o req.destinations), BufferM, network_type_of(req.mode)>>

GraphKeys == {graph_key(r) : r \in GdmReqs}

\* a lookup that never finds the key
InCacheNever(cache, k) == FALSE

\* lru_cache: the key is among the stored calls
InCache(cache, k) == \E i \in 1..Len(cache) : cache[i] = k

\* lru_cache on a hit: the key becomes the most recently used
LruTouch(cache, k) ==
    LET i == CHOOSE j \in 1..Len(cache) : cache[j] = k
    IN Append([j \in 1..(Len(cache) - 1) |-> IF j < i THEN cache[j] ELSE cache[j + 1]], k)

\* lru_cache on a miss whose call returned: the result is stored, the least
\* recently used entry making room when the cache is full
LruInsert(cache, k) ==
    Append(IF Len(cache) >= LruMaxsize THEN Tail(cache) ELSE cache, k)

\* what ox.graph_from_point (or the length/travel-time passes after it) can do
BuildOutcomes == {"ok", "TypeError", "Exception"}

\* _make_graph(lat, lon, nt) -> _build_graph(...): built tells whether the
\* graph was constructed; a call that raises is not stored by lru_cache
build_graph(cache, k, outcome) ==
    IF InCache(cache, k) THEN [cache |-> LruTouch(cache, k), built |-> FALSE, res |-> "ok"]
    ELSE IF outcome # "ok" THEN [cache |-> cache, built |-> FALSE, res |-> outcome]
    ELSE [cache |-> LruInsert(cache, k), built |-> TRUE, res |-> "ok"]

IdleGdm == [pc |-> "idle", endpoint |-> "none", req |-> <<>>, gkey |-> <<>>,
            status |-> 0, peers |-> {}, registered |-> TRUE,
            steps |-> <<>>, upstream |-> "none"]

InFlight == {t \in Tasks : task[t].pc \in {"pending", "awaiting"}}

\* a request is received; its handler is scheduled on the event loop
GdmArrive(t, req) ==
    /\ task[t].pc = "idle"
    /\ task' = [task EXCEPT ![t] = [IdleGdm EXCEPT !.pc = "pending",
                    !.endpoint = "generic", !.req = req, !.peers = InFlight]]
    /\ UNCHANGED <<orsApiKey, graphs, graphBuilds>>
    /\ UNCHANGED notMatrix

\* get_distance_matrix for a name that is not registered: create_adapter raises
\* ValueError, which the handler's `except Exception` answers with 500
GdmUnknown(t) ==
    /\ task[t].pc = "pending"
    /\ lower_strip(task[t].req.adapter) \notin RegisteredAdapters
    /\ task' = [task EXCEPT ![t].pc = "done", ![t].status = 500, ![t].req = <<>>,
                            ![t].registered = FALSE]
    /\ UNCHANGED <<orsApiKey, graphs, graphBuilds>>
    /\ UNCHANGED notMatrix

\* get_distance_matrix with the local-graph adapter, from create_adapter to the
\* response; there is no await on the way.  The bound get_matrix(origins,
\* destinations, mode) matches none of the probed shapes, gm(req) raises
\* TypeError before any graph is asked for, and gm(origins, dests, mode=...)
\* runs build -> _make_graph -> _build_graph.  A TypeError out of that call is
\* answered by one more call with keywords; any other exception, and any
\* exception of the second call, by 500.  restOk: node snapping and the
\* shortest paths of the call that got its graph went through.
GdmOsm(t, first, second, restOk) ==
    /\ task[t].pc = "pending"
    /\ lower_strip(task[t].req.adapter) = "osm_graph"
    /\ lower_strip(task[t].req.adapter) \in RegisteredAdapters
    /\ LET k == graph_key(task[t].req)
           g1 == build_graph(graphs, k, first)
           g2 == IF g1.res = "TypeError" THEN build_graph(g1.cache, k, second) ELSE g1
           n == (IF g1.built THEN 1 ELSE 0)
                + (IF g1.res = "TypeError" /\ g2.built THEN 1 ELSE 0)
       IN
       /\ graphs' = g2.cache
       /\ graphBuilds' = [graphBuilds EXCEPT ![k] = @ + n]
       /\ task' = [task EXCEPT ![t].pc = "done", ![t].gkey = k, ![t].req = <<>>,
                       ![t].status = IF g2.res = "ok" /\ restOk THEN 200 ELSE 500,
                       ![t].steps = IF g1.res = "TypeError"
                                    THEN <<"resolve", "invoke", "invoke">>
                                    ELSE <<"resolve", "invoke">>]
    /\ UNCHANGED orsApiKey
    /\ UNCHANGED notMatrix

\* get_distance_matrix with the ORS adapter, to `await result`
GdmOrsStart(t) ==
    /\ task[t].pc = "pending"
    /\ lower_strip(task[t].req.adapter) = "openrouteservice"
    /\ lower_strip(task[t].req.adapter) \in RegisteredAdapters
    /\ IF ORS_get_matrix_enter(task[t].req.origins, task[t].req.destinations) = "raise"
       THEN task' = [task EXCEPT ![t].pc = "done", ![t].status = 500, ![t].req = <<>>,
                                 ![t].steps = <<"resolve", "invoke">>]
       ELSE task' = [task EXCEPT ![t].pc = "awaiting", ![t].req = <<>>,
                                 ![t].steps = <<"resolve", "invoke">>]
    /\ UNCHANGED <<orsApiKey, graphs, graphBuilds>>
    /\ UNCHANGED notMatrix

\* get_distance_matrix after `await result`: the matrix (200), or the adapter's
\* DistanceMatrixRequestError, which `except Exception` answers with 500
GdmOrsResume(t, outcome) ==
    /\ task[t].pc = "awaiting"
    /\ task[t].endpoint = "generic"
    /\ task' = [task EXCEPT ![t].pc = "done", ![t].upstream = outcome,
                            ![t].status = IF outcome = "ok" THEN 200 ELSE 500]
    /\ UNCHANGED <<orsApiKey, graphs, graphBuilds>>
    /\ UNCHANGED notMatrix

\* every request of the round is answered: a new round of requests may arrive
GdmNewRound ==
    /\ TasksDone
    /\ task' = [t \in Tasks |-> IdleGdm]
    /\ graphBuilds' = [k \in GraphKeys |-> 0]
    /\ UNCHANGED <<orsApiKey, graphs>>
    /\ UNCHANGED notMatrix

InitMatrix ==
    /\ task = [t \in Tasks |-> IdleGdm]
    /\ orsApiKey \in BOOLEAN
    /\ graphs = <<>>
    /\ graphBuilds = [k \in GraphKeys |-> 0]
    /\ store = <<>>
    /\ now = 0
    /\ store0 = <<>>
    /\ now0 = 0
    /\ co = <<>>
    /\ builderCalls = <<>>
    /\ adapterCalls = <<>>
    /\ solvePc = "idle"
    /\ solveReq = <<>>
    /\ solveResp = <<>>
    /\ RegistryUnused
    /\ TwUnused
    /\ FnUnused

NextMatrix ==
    \/ \E t \in Tasks, req \in GdmReqs : GdmArrive(t, req)
    \/ \E t \in Tasks : GdmUnknown(t)
    \/ \E t \in Tasks, first, second \in BuildOutcomes, restOk \in BOOLEAN :
            GdmOsm(t, first, second, restOk)
    \/ \E t \in Tasks : GdmOrsStart(t)
    \/ \E t \in Tasks, outcome \in {"ok"} \cup UpstreamFailures : GdmOrsResume(t, outcome)
    \/ GdmNewRound

SpecMatrix == InitMatrix /\ [][NextMatrix]_vars

---------------------------------------------------------------------------
(* api/solver_routes.py: POST /solver (solve), the engines of               *)
(* services/solvers and the enricher of services/metrics.py.  solve is a    *)
(* plain function that shares no state with other requests: one run of the  *)
(* handler is one step.  What the handler cannot decide itself (the tour an *)
(* engine picks among equally good ones, the pyvroom build that is          *)
(* installed, a failure of the engine's library) is chosen by the step.     *)

\* Optional[...]: None, or a value
Nothing == [some |-> FALSE]
Some(x) == [some |-> TRUE, val |-> x]

BigCap == 1000000000            \* 10**9, the capacity of a vehicle that names none
MetersPerDegree == 111195       \* R * pi / 180 with R = 6371000.0, to the metre

\* distance matrices of three nodes (node 0, 1, 2), whole kilometres
MatTsp3 == <<<<0, 5, 7>>, <<5, 0, 3>>, <<7, 3, 0>>>>
MatColocated == <<<<0, 0, 7>>, <<0, 0, 7>>, <<7, 7, 0>>>>
MatOneWay == <<<<0, 9, 1>>, <<1, 0, 9>>, <<9, 1, 0>>>>

\* MatrixResult(distances=d): durations stay None
MatrixResult(d) == [distances |-> d, durations |-> Nothing]
MatrixInputs == {Nothing} \cup {Some(MatrixResult(d)) : d \in {MatTsp3, MatColocated, MatOneWay}}

\* Vehicle(id, capacity, start, end)
Vehicle(id, capacity, startEnd) ==
    [id |-> id, capacity |-> capacity, start |-> startEnd, end |-> startEnd]
FleetInputs ==
    { <<Vehicle("v1", Nothing, Nothing)>>,
      <<Vehicle("v1", Nothing, Some(0))>>,
      <<Vehicle("v1", Some(<<5>>), Nothing), Vehicle("v2", Some(<<5>>), Nothing)>> }

DemandInputs == {Nothing, Some(<<0, 4, 4>>), Some(<<0, 4, -4>>), Some(<<0, 4>>)}
PairInputs == {Nothing, Some(<<[pickup |-> 1, delivery |-> 2]>>)}

\* Waypoint(id, location): three points on one meridian, the depot first
WaypointInputs ==
    {Nothing, Some(<<[id |-> "A", lat |-> 0, lon |-> 0], [id |-> "B", lat |-> 2, lon |-> 0],
                     [id |-> "C", lat |-> 1, lon |-> 0]>>)}

SolverNames == {"ortools", " OrTools ", "pyomo", "vroom", "nope"}

\* depot_index: node 0, or 3, which is no node of a problem of three nodes
DepotInputs == {0, 3}

\* SolveRequest, as pydantic hands it to the handler
SolveReqs ==
    [solver : SolverNames, matrix : MatrixInputs, fleet : FleetInputs, depot_index : DepotInputs,
     demands : DemandInputs, pickup_delivery_pairs : PairInputs, waypoints : WaypointInputs]

\* name.lower().strip() on the names drawn
solver_key(name) == IF name = " OrTools " THEN "ortools" ELSE name

\* _solver_registry after register_solvers()
RegisteredSolvers == {"ortools", "vroom", "pyomo"}

\* str(i) and int(s) on node indices
StrTable == <<"0", "1", "2", "3">>
ToStr(i) == StrTable[i + 1]
ToInt(s) == (CHOOSE k \in DOMAIN StrTable : StrTable[k] = s) - 1

\* matrix.distances[a][b], nodes counted from 0
Dist(distances, a, b) == distances[a + 1][b + 1]

\* sum of distances[a][b] over consecutive nodes of a path
RECURSIVE SumLegs(_, _)
SumLegs(distances, path) ==
    IF Len(path) <= 1 THEN 0
    ELSE Dist(distances, path[1], path[2]) + SumLegs(distances, Tail(path))

Route(vehicle_id, path, total_distance) ==
    [vehicle_id |-> vehicle_id, waypoint_ids |-> [i \in DOMAIN path |-> ToStr(path[i])],
     total_distance |-> total_distance]

\* a variant of the enricher that keeps what the engine reported
enrich_keep_engine_totals(routes, matrix) == routes

\* the loop of enrich_routes_with_metrics: for i in range(len(idxs) - 1):
\* dist += matrix.distances[idxs[i]][idxs[i + 1]]
RECURSIVE enrich_loop(_, _, _, _)
enrich_loop(distances, idxs, i, dist) ==
    IF i > Len(idxs) - 1 THEN dist
    ELSE enrich_loop(distances, idxs, i + 1, dist + Dist(distances, idxs[i], idxs[i + 1]))

\* enrich_routes_with_metrics: per route, idxs = [int(x) for x in waypoint_ids]
\* and total_distance = dist of the loop
enrich_routes_with_metrics(routes, matrix) ==
    [r \in DOMAIN routes |->
        LET idxs == [i \in DOMAIN routes[r].waypoint_ids |-> ToInt(routes[r].waypoint_ids[i])]
        IN [routes[r] EXCEPT !.total_distance = enrich_loop(matrix.distances, idxs, 1, 0)]]

\* _n_nodes_from_matrix
n_nodes_from_matrix(m) == Len(m.distances)

\* (arr + [0] * n)[:n]
PadTo(arr, n) == [i \in 1..n |-> IF i <= Len(arr) THEN arr[i] ELSE 0]

\* _normalize_optional_arrays_for_solver, the demands array: untouched unless the
\* engine is pyomo or ortools and there is a matrix with nodes
normalize_demands(solver_name, matrix, demands) ==
    IF solver_name \notin {"pyomo", "ortools"} \/ ~matrix.some THEN demands
    ELSE IF n_nodes_from_matrix(matrix.val) <= 0 THEN demands
    ELSE IF ~demands.some THEN Some([i \in 1..n_nodes_from_matrix(matrix.val) |-> 0])
    ELSE Some(PadTo(demands.val, n_nodes_from_matrix(matrix.val)))

\* _has_euclidean_xy: counts the waypoints that are dicts with numeric x and y
\* (the request's waypoints are Waypoint objects: none is a dict, none has x, y)
has_euclidean_xy(waypoints) ==
    IF ~waypoints.some \/ waypoints.val = <<>> THEN FALSE
    ELSE LET count == Cardinality({i \in DOMAIN waypoints.val :
                                      {"x", "y"} \subseteq DOMAIN waypoints.val[i]})
             half == Len(waypoints.val) \div 2
         IN count >= (IF half > 1 THEN half ELSE 1)

\* _filter_kwargs_for(solve_fn, call_kwargs): the names of the keyword arguments
\* that reach the engine: those its signature names, whose value is not None
SolveSignature(s) ==
    IF s = "ortools"
      THEN {"fleet", "matrix", "depot_index", "demands", "node_time_windows",
            "node_service_times", "pickup_delivery_pairs", "weights", "kwargs"}
    ELSE IF s = "pyomo"
      THEN {"fleet", "matrix", "depot_index", "demands", "node_time_windows",
            "node_service_times", "kwargs"}
    ELSE {"request"}

filter_kwargs_for(s, call_kwargs) ==
    {k \in DOMAIN call_kwargs : k \in SolveSignature(s) /\ call_kwargs[k].some}

---------------------------------------------------------------------------
(* What an engine hands back: routes, or an exception.  raised names the    *)
(* exception that was raised inside the engine, also when the engine caught *)
(* it and returned routes.                                                  *)

Returned(routes, raised) == [kind |-> "routes", routes |-> routes, raised |-> raised]
Raised(exc) == [kind |-> "raise", routes |-> <<>>, raised |-> exc]

NodesOf(n) == 0..(n - 1)
Arcs(n) == {a \in NodesOf(n) \X NodesOf(n) : a[1] # a[2]}
OutDeg(xs, i) == Cardinality({a \in xs : a[1] = i})
InDeg(xs, i) == Cardinality({a \in xs : a[2] = i})

\* v.capacity[0] if v.capacity else 10**9, per vehicle
CapsOf(fleet) ==
    [k \in DOMAIN fleet |->
        IF fleet[k].capacity.some /\ fleet[k].capacity.val # <<>>
        THEN fleet[k].capacity.val[1] ELSE BigCap]

Max0(c) == IF c > 0 THEN c ELSE 0

(* services/solvers/pyomo_solver.py.  x[i,j,k] = 1 is the arc <<i, j>> in   *)
(* x[k]; x[i,i,k] = 0 (no_loops) is built into Arcs.                        *)

\* the constraints on one vehicle's arcs: depot_start, depot_end, flow, link_out,
\* link_in, used_has_work, with used[k] binary
PyomoVehicleOk(xs, n, depot) ==
    \E used \in {0, 1} :
        /\ OutDeg(xs, depot) = used
        /\ InDeg(xs, depot) = used
        /\ \A i \in NodesOf(n) \ {depot} :
              /\ OutDeg(xs, i) - InDeg(xs, i) = 0
              /\ OutDeg(xs, i) <= used
              /\ InDeg(xs, i) <= used
        /\ Cardinality({a \in xs : a[1] # depot}) >= used

\* an upper bound on the arrival times a feasible tour needs
TimeHorizon(durations) ==
    SumSeq([i \in DOMAIN durations |-> SumSeq(durations[i])])

\* depot_time_anchor, tw_bounds with the windows [0, BIG_T] and time_prop with
\* service times 0: arrival times a exist (big-M switches the unused arcs off)
PyomoTimesExist(x, n, depot, durations) ==
    \E a \in [NodesOf(n) \ {depot} -> 0..TimeHorizon(durations)] :
        \A k \in DOMAIN x : \A arc \in x[k] :
            arc[2] # depot =>
                a[arc[2]] >= (IF arc[1] = depot THEN 0 ELSE a[arc[1]])
                             + Dist(durations, arc[1], arc[2])

\* the assignments of x that satisfy every constraint of the model
PyomoFeasible(n, m, depot, durations, d, caps) ==
    LET perVehicle == {xs \in SUBSET Arcs(n) : PyomoVehicleOk(xs, n, depot)}
    IN {x \in [1..m -> perVehicle] :
          /\ \A i \in NodesOf(n) \ {depot} :
                /\ SumSeq([k \in 1..m |-> OutDeg(x[k], i)]) = 1     \* visit_once
                /\ SumSeq([k \in 1..m |-> InDeg(x[k], i)]) = 1      \* arrive_once
          /\ \A k \in 1..m :                                        \* capacity
                SumSeq([j \in 1..n |-> IF j - 1 = depot THEN 0
                                       ELSE d[j] * OutDeg(x[k], j - 1)]) <= caps[k]
          /\ PyomoTimesExist(x, n, depot, durations)}

\* the objective: distance_cost (vehicle_fixed_cost is 0)
PyomoObjective(x, dist) ==
    SumSeq([k \in DOMAIN x |-> SumSeq([j \in 1..(Len(dist) * Len(dist)) |->
        LET arc == <<(j - 1) \div Len(dist), (j - 1) % Len(dist)>>
        IN IF arc \in x[k] THEN Dist(dist, arc[1], arc[2]) ELSE 0])])

\* next_of[i] = j for the arcs of the vehicle, a later j replacing an earlier one
NextOf(xs, i) == CHOOSE j \in {a[2] : a \in {b \in xs : b[1] = i}} :
                    \A a \in xs : a[1] = i => a[2] <= j

\* the while loop that follows next_of from the depot
RECURSIVE PyomoFollow(_, _, _, _, _, _, _, _, _)
PyomoFollow(xs, dist, depot, path, total_dist, seen, cur, steps, max_steps) ==
    IF OutDeg(xs, cur) = 0 \/ steps >= max_steps
    THEN [path |-> path, total_dist |-> total_dist]
    ELSE LET nxt == NextOf(xs, cur)
             path2 == Append(path, nxt)
             total2 == total_dist + Dist(dist, cur, nxt)
         IN IF nxt = depot \/ nxt \in seen
            THEN [path |-> path2, total_dist |-> total2]
            ELSE PyomoFollow(xs, dist, depot, path2, total2, seen \cup {nxt}, nxt,
                             steps + 1, max_steps)

\* "Extract solution into Routes": vehicles k_idx.. of the fleet, in order.  A
\* vehicle without arcs is passed over, and so is one whose path has no more than
\* two nodes or whose total_dist is <= 1e-6 (0, the distances being whole)
RECURSIVE PyomoExtract(_, _, _, _, _)
PyomoExtract(x, fleet, dist, depot, k_idx) ==
    IF k_idx > Len(fleet) THEN <<>>
    ELSE LET rest == PyomoExtract(x, fleet, dist, depot, k_idx + 1)
             f == PyomoFollow(x[k_idx], dist, depot, <<depot>>, 0, {depot}, depot, 0,
                              Len(dist) + 5)
         IN IF x[k_idx] = {} THEN rest
            ELSE IF Len(f.path) <= 2 \/ f.total_dist <= 0 THEN rest
            ELSE <<Route(fleet[k_idx].id, f.path, f.total_dist)>> \o rest

\* PyomoSolver.solve(fleet, matrix, depot_index, demands, ...).  durations are
\* None, so the model's durations are the rounded distances (whole already).
\* CBC runs to optimality (ratioGap 0): any optimal assignment may come back.
\* lib = "Exception": the CBC run itself fails (no executable, a crash).
PyomoSolver_solve(fleet, matrix, depot_index, demands, lib) ==
    LET dist == matrix.distances
        n == Len(dist)
        m == Len(fleet)
        d == IF demands.some /\ demands.val # <<>> THEN demands.val ELSE [i \in 1..n |-> 0]
        caps == CapsOf(fleet)
        feasible == PyomoFeasible(n, m, depot_index, dist, d, caps)
        optimal == {x \in feasible : \A y \in feasible :
                        PyomoObjective(x, dist) <= PyomoObjective(y, dist)}
    IN IF n = 0 \/ m = 0 \/ Len(d) # n THEN {Raised("SolverError")}
       ELSE IF SumSeq(d) > SumSeq([k \in 1..m |-> Max0(caps[k])]) THEN {Raised("SolverError")}
       ELSE IF depot_index > n - 1      \* durations[depot_index][i] in the preflight loop
         THEN {Raised("IndexError")}
       ELSE IF lib = "Exception" THEN {Raised("Exception")}
       ELSE IF feasible = {} THEN {Raised("SolverError")}
       ELSE {LET routes_out == PyomoExtract(x, fleet, dist, depot_index, 1)
             IN IF routes_out = <<>> THEN Raised("SolverError")
                ELSE Returned(routes_out, "none") : x \in optimal}

(* services/solvers/ortools_solver.py.  The routing library is not part of  *)
(* the repository: it is taken to return some assignment that satisfies the *)
(* model the code builds, or None when it finds none.                       *)

\* depot = max(0, min(int(depot_index or 0), N - 1))
ClampDepot(depot_index, n) ==
    IF depot_index > n - 1 THEN Max0(n - 1) ELSE Max0(depot_index)

\* the sequences of distinct elements of S
SeqsNoRep(S) ==
    UNION {{q \in [1..k -> S] : \A i, j \in 1..k : i # j => q[i] # q[j]} :
           k \in 0..Cardinality(S)}

\* position of node v in sequence q, 0 when absent
PosIn(q, v) == IF \E i \in DOMAIN q : q[i] = v
               THEN CHOOSE i \in DOMAIN q : q[i] = v ELSE 0

\* the Capacity dimension (added only if some demand is not 0): the load starts
\* at 0, grows by the demand of each node left, and stays within [0, capacity]
OrLoadsOk(visits, dem, cap) ==
    \A len \in 1..Len(visits) :
        LET load == SumSeq([i \in 1..len |-> dem[visits[i] + 1]])
        IN load >= 0 /\ load <= cap

\* AddPickupAndDelivery, the same-vehicle constraint and the precedence of the
\* Time dimension
OrPairsOk(assign, pairs) ==
    \A p \in DOMAIN pairs :
        \E k \in DOMAIN assign :
            /\ PosIn(assign[k], pairs[p].pickup) > 0
            /\ PosIn(assign[k], pairs[p].delivery) > 0
            /\ PosIn(assign[k], pairs[p].pickup) < PosIn(assign[k], pairs[p].delivery)

\* the assignments of visits to vehicles the routing model admits: every node
\* that is no vehicle's start or end is visited once (no disjunction is added:
\* allow_drop is False)
OrSolutions(n, fleet, starts, ends, dem, pairs) ==
    LET ends_ == {starts[k] : k \in DOMAIN fleet} \cup {ends[k] : k \in DOMAIN fleet}
        visits == NodesOf(n) \ ends_
        caps == CapsOf(fleet)
    IN {assign \in [DOMAIN fleet -> SeqsNoRep(visits)] :
          /\ \A v \in visits :
                Cardinality({k \in DOMAIN fleet : PosIn(assign[k], v) > 0}) = 1
          /\ (\E i \in DOMAIN dem : dem[i] # 0) =>
                \A k \in DOMAIN fleet : OrLoadsOk(assign[k], dem, caps[k])
          /\ OrPairsOk(assign, pairs)}

\* "Extract routes": path_nodes runs from the vehicle's start to its end;
\* total_km adds the legs between the nodes before the end (the leg into the
\* end is not added); a route that never leaves the depot is passed over
RECURSIVE OrExtract(_, _, _, _, _, _)
OrExtract(assign, fleet, dist, starts, ends, v_id) ==
    IF v_id > Len(fleet) THEN <<>>
    ELSE LET rest == OrExtract(assign, fleet, dist, starts, ends, v_id + 1)
             before_end == <<starts[v_id]>> \o assign[v_id]
             path_nodes == Append(before_end, ends[v_id])
             total_km == SumLegs(dist, before_end)
             only_depot == \A i \in DOMAIN path_nodes : path_nodes[i] = starts[v_id]
         IN IF only_depot /\ total_km = 0 THEN rest
            ELSE <<Route(fleet[v_id].id, path_nodes, total_km)>> \o rest

\* OrToolsSolver.solve(fleet, matrix, depot_index, demands, pickup_delivery_pairs).
\* lib = "Exception": the library itself fails.
OrToolsSolver_solve(fleet, matrix, depot_index, demands, pickup_delivery_pairs, lib) ==
    LET dist == matrix.distances
        n == Len(dist)
        depot == ClampDepot(depot_index, n)
        dem == IF demands.some THEN PadTo(demands.val, n) ELSE [i \in 1..n |-> 0]
        starts == [k \in DOMAIN fleet |->
                     IF fleet[k].start.some THEN fleet[k].start.val ELSE depot]
        ends == [k \in DOMAIN fleet |->
                     IF fleet[k].end.some THEN fleet[k].end.val ELSE depot]
        pairs == IF pickup_delivery_pairs.some THEN pickup_delivery_pairs.val ELSE <<>>
        solutions == OrSolutions(n, fleet, starts, ends, dem, pairs)
    IN IF n = 0 \/ fleet = <<>> THEN {Raised("SolverError")}
       ELSE IF \E i \in DOMAIN dist : Len(dist[i]) # n THEN {Raised("SolverError")}
       ELSE IF lib = "Exception" THEN {Raised("Exception")}
       ELSE IF solutions = {} THEN {Raised("SolverError")}
       ELSE {Returned(OrExtract(a, fleet, dist, starts, ends, 1), "none") : a \in solutions}

(* services/solvers/vroom_solver.py.  VroomSolver.solve takes the request    *)
(* itself.  pyvroom is not part of the repository: whether it is installed, *)
(* the signature of its Job and what its solve does are chosen by the step. *)

Abs(v) == IF v < 0 THEN 0 - v ELSE v

\* _coords_from_waypoints and _geo_matrix: the great-circle distance in metres;
\* along one meridian _haversine_m is R * |dlat| in radians
geo_matrix(waypoints) ==
    [i \in DOMAIN waypoints |-> [j \in DOMAIN waypoints |->
        Abs(waypoints[i].lat - waypoints[j].lat) * MetersPerDegree]]

\* _nn_path: min(unvisited, key=dist[cur][j]), the first of the nearest in the
\* order of the set (ascending for small ints)
RECURSIVE nn_loop(_, _, _, _)
nn_loop(dist, route, cur, unvisited) ==
    IF unvisited = {} THEN route
    ELSE LET nxt == CHOOSE j \in unvisited : \A k \in unvisited :
                        \/ Dist(dist, cur, j) < Dist(dist, cur, k)
                        \/ (Dist(dist, cur, j) = Dist(dist, cur, k) /\ j <= k)
         IN nn_loop(dist, Append(route, nxt), nxt, unvisited \ {nxt})

\* a walk that does not come back to the depot
nn_path_open(dist, depot) ==
    nn_loop(dist, <<depot>>, depot, NodesOf(Len(dist)) \ {depot})

nn_path(dist, depot) ==
    Append(nn_loop(dist, <<depot>>, depot, NodesOf(Len(dist)) \ {depot}), depot)

\* the one consolidated route on vehicle 0 of every fallback, with _route_totals
nn_fallback(vehicles, matrix, depot) ==
    LET path == nn_path(matrix.distances, depot)
    IN <<Route(vehicles[1].id, path, SumLegs(matrix.distances, path))>>

\* the builds of pyvroom and the ways its solve can end
VroomEnvs ==
    [has_vroom : BOOLEAN, job_sig : {"location_index", "location", "other"},
     solve : {"routes", "empty", "TypeError", "Exception"}]

\* "Extract per-vehicle routes" for a solution of one route r on vehicle k with
\* the jobs in the order steps
vroom_extract(vehicles, matrix, depot, k, steps) ==
    IF ~vehicles[k].start.some \/ ~vehicles[k].end.some
    THEN Raised("TypeError")        \* int(getattr(vehicles[k], "start", depot)) is int(None)
    ELSE LET start_idx == vehicles[k].start.val
             end_idx == vehicles[k].end.val
             kept == SelectSeq(steps, LAMBDA li : li # start_idx)
             path0 == <<start_idx>> \o kept
             path == IF path0[Len(path0)] # end_idx THEN Append(path0, end_idx) ELSE path0
         IN Returned(<<Route(vehicles[k].id, path, SumLegs(matrix.distances, path))>>, "none")

\* an exception that leaves the try block of solve: SolverRequestError goes on,
\* TypeError becomes SolverRequestError, anything else is answered by the
\* nearest-neighbour route with status success
vroom_except(outcome, vehicles, matrix, depot) ==
    IF outcome.kind = "routes" THEN outcome
    ELSE IF outcome.raised = "SolverRequestError" THEN outcome
    ELSE IF outcome.raised = "TypeError" THEN Raised("SolverRequestError")
    ELSE Returned(nn_fallback(vehicles, matrix, depot), outcome.raised)

\* VroomSolver.solve(request)
VroomSolver_solve(request, env) ==
    LET vehicles == request.fleet
        depot == request.depot_index
        matrix == IF request.matrix.some THEN request.matrix.val
                  ELSE MatrixResult(geo_matrix(request.waypoints.val))
        has_coords == ~request.matrix.some
        n == Len(matrix.distances)
        coord_mode == env.job_sig = "location"
        jobs == NodesOf(n) \ {depot}
    IN IF vehicles = <<>> THEN {Raised("SolverRequestError")}
       ELSE IF ~request.matrix.some /\ (~request.waypoints.some \/ request.waypoints.val = <<>>)
         THEN {Raised("SolverRequestError")}
       ELSE IF ~(0 <= depot /\ depot < n) THEN {Raised("SolverRequestError")}
       ELSE IF ~env.has_vroom THEN {Returned(nn_fallback(vehicles, matrix, depot), "none")}
       ELSE IF env.job_sig = "other" THEN {Raised("SolverRequestError")}
       ELSE IF coord_mode /\ ~has_coords       \* matrix.coordinates is None
         THEN {Returned(nn_fallback(vehicles, matrix, depot), "none")}
       ELSE IF env.solve = "empty" THEN {Returned(nn_fallback(vehicles, matrix, depot), "none")}
       ELSE IF env.solve \in {"TypeError", "Exception"}
         THEN {vroom_except(Raised(env.solve), vehicles, matrix, depot)}
       ELSE {vroom_except(vroom_extract(vehicles, matrix, depot, k, steps),
                          vehicles, matrix, depot) :
                k \in DOMAIN vehicles, steps \in {q \in SeqsNoRep(jobs) : Len(q) = Cardinality(jobs)}}

---------------------------------------------------------------------------
(* api/solver_routes.py: solve(req).  stages lists what the handler went    *)
(* through, in order; raised names the exception raised on the way ("none"  *)
(* when there was none), engine_routes what the engine returned.            *)

INF == 1000000000       \* 10**9, the open end of a time window

Answer(http, status, routes, engine_routes, stages, raised) ==
    [http |-> http, status |-> status, routes |-> routes,
     engine_routes |-> engine_routes, stages |-> stages, raised |-> raised]

\* _build_euclidean_matrix_from_waypoints for points of one ordinate:
\* math.hypot(ax - bx, 0)
build_euclidean_matrix_from_waypoints(waypoints) ==
    MatrixResult([i \in DOMAIN waypoints |-> [j \in DOMAIN waypoints |->
        Abs(waypoints[i].x - waypoints[j].x)]])

\* the matrix of the handler after "Normalize matrix" and the EUC_2D auto-matrix
canonical_matrix(r) ==
    IF ~r.matrix.some /\ has_euclidean_xy(r.waypoints)
    THEN Some(build_euclidean_matrix_from_waypoints(r.waypoints.val))
    ELSE r.matrix

\* "Solver-specific preconditions": TRUE when the handler raises HTTPException(400)
precondition_fails(s, r, matrix) ==
    IF s \in {"ortools", "pyomo"}
    THEN ~matrix.some \/ matrix.val.distances = <<>>
    ELSE IF s = "vroom"
    THEN (~r.waypoints.some \/ r.waypoints.val = <<>>) /\ ~matrix.some
    ELSE FALSE

\* call_kwargs after _normalize_optional_arrays_for_solver
call_kwargs_of(s, r, matrix) ==
    LET normalized == s \in {"pyomo", "ortools"} /\ matrix.some
                      /\ n_nodes_from_matrix(matrix.val) > 0
        n == IF matrix.some THEN n_nodes_from_matrix(matrix.val) ELSE 0
    IN [fleet |-> Some(r.fleet),
        matrix |-> matrix,
        depot_index |-> Some(r.depot_index),
        demands |-> normalize_demands(s, matrix, r.demands),
        node_time_windows |-> IF normalized THEN Some([i \in 1..n |-> <<0, INF>>]) ELSE Nothing,
        node_service_times |-> IF normalized THEN Some([i \in 1..n |-> 0]) ELSE Nothing,
        pickup_delivery_pairs |-> r.pickup_delivery_pairs,
        weights |-> Nothing,
        vrp_type |-> Nothing,
        waypoints |-> IF s = "vroom" THEN r.waypoints ELSE Nothing]

\* the value the engine sees for a parameter: the keyword argument when it got
\* through the filter, the parameter's default None otherwise
Arg(kwargs, filtered, name) == IF name \in filtered THEN kwargs[name] ELSE Nothing

\* "Invoke solver": solve_fn(req) for the legacy signature, solve_fn(**filtered)
\* otherwise; libs are the ways the engine's library can behave
invoke(s, r, kwargs, filtered, libs) ==
    IF s = "pyomo"
    THEN UNION {PyomoSolver_solve(kwargs.fleet.val, kwargs.matrix.val, kwargs.depot_index.val,
                                  Arg(kwargs, filtered, "demands"), lib) : lib \in libs}
    ELSE IF s = "ortools"
    THEN UNION {OrToolsSolver_solve(kwargs.fleet.val, kwargs.matrix.val, kwargs.depot_index.val,
                                    Arg(kwargs, filtered, "demands"),
                                    Arg(kwargs, filtered, "pickup_delivery_pairs"), lib) :
                lib \in libs}
    ELSE UNION {VroomSolver_solve(r, env) : env \in libs}

\* solve(req): the answers the handler can give
solve(r, libs) ==
    LET s == solver_key(r.solver)
        matrix == canonical_matrix(r)
        kwargs == call_kwargs_of(s, r, matrix)
        filtered == filter_kwargs_for(s, kwargs)
        st_get == <<"get_solver">>
        st_norm == Append(st_get, "normalize_matrix")
        st_check == Append(st_norm, "required_check")
        st_arrays == Append(st_check, "normalize_arrays")
        st_invoke == Append(st_arrays, "invoke")
    IN IF s \notin RegisteredSolvers                \* get_solver raises ValueError
       THEN {Answer(500, "error", <<>>, <<>>, st_get, "ValueError")}
       ELSE IF precondition_fails(s, r, matrix)
       THEN {Answer(400, "error", <<>>, <<>>, st_check, "HTTPException")}
       ELSE IF s \in {"pyomo", "ortools"} /\ "matrix" \notin filtered
       THEN {Answer(500, "error", <<>>, <<>>, st_arrays, "HTTPException")}
       ELSE {IF o.kind = "raise"
             THEN Answer(500, "error", <<>>, <<>>, st_invoke, o.raised)
             ELSE IF matrix.some
             THEN Answer(200, "success", enrich_routes_with_metrics(o.routes, matrix.val),
                         o.routes, st_invoke \o <<"enrich", "respond">>, o.raised)
             ELSE Answer(200, "success", o.routes, o.routes,
                         Append(st_invoke, "respond"), o.raised) :
             o \in invoke(s, r, kwargs, filtered, libs)}

\* a request arrives
Receive(r) ==
    /\ solvePc = "idle"
    /\ solvePc' = "received"
    /\ solveReq' = r
    /\ solveResp' = <<>>
    /\ UNCHANGED notSolve

\* solve(req) for a name that is not registered
SolveUnknown ==
    /\ solvePc = "received"
    /\ solver_key(solveReq.solver) \notin RegisteredSolvers
    /\ solveResp' \in solve(solveReq, {})
    /\ solvePc' = "responded"
    /\ UNCHANGED solveReq
    /\ UNCHANGED notSolve

\* solve(req) for pyomo or ortools; lib: the engine's library works or fails
SolveMatrixEngine(lib) ==
    /\ solvePc = "received"
    /\ solver_key(solveReq.solver) \in {"pyomo", "ortools"}
    /\ solveResp' \in solve(solveReq, {lib})
    /\ solvePc' = "responded"
    /\ UNCHANGED solveReq
    /\ UNCHANGED notSolve

\* solve(req) for vroom; env: the pyvroom at hand
SolveVroom(env) ==
    /\ solvePc = "received"
    /\ solver_key(solveReq.solver) = "vroom"
    /\ solveResp' \in solve(solveReq, {env})
    /\ solvePc' = "responded"
    /\ UNCHANGED solveReq
    /\ UNCHANGED notSolve

\* the response is sent; the next request may arrive
Respond ==
    /\ solvePc = "responded"
    /\ solvePc' = "idle"
    /\ solveReq' = <<>>
    /\ solveResp' = <<>>
    /\ UNCHANGED notSolve

InitSolve ==
    /\ solvePc = "idle"
    /\ solveReq = <<>>
    /\ solveResp = <<>>
    /\ RegistryUnused
    /\ TwUnused
    /\ FnUnused
    /\ store = <<>>
    /\ now = 0
    /\ store0 = <<>>
    /\ now0 = 0
    /\ co = <<>>
    /\ builderCalls = <<>>
    /\ task = <<>>
    /\ adapterCalls = <<>>
    /\ orsApiKey = FALSE
    /\ graphs = <<>>
    /\ graphBuilds = <<>>

NextSolve ==
    \/ \E r \in SolveReqs : Receive(r)
    \/ SolveUnknown
    \/ \E lib \in {"ok", "Exception"} : SolveMatrixEngine(lib)
    \/ \E env \in VroomEnvs : SolveVroom(env)
    \/ Respond

SpecSolve == InitSolve /\ [][NextSolve]_vars

---------------------------------------------------------------------------
(* Properties of the solve endpoint *)

Answered == solvePc = "responded"
Success == Answered /\ solveResp.http = 200 /\ solveResp.status = "success"

\* stage a is in the handler's run, and before stage b
Before(a, b) ==
    /\ PosIn(solveResp.stages, a) > 0
    /\ PosIn(solveResp.stages, b) > 0
    /\ PosIn(solveResp.stages, a) < PosIn(solveResp.stages, b)

\* C5: a solve request goes through validate engine name, normalize, engine-required
\* check, invoke engine, recompute metrics, respond in this order: the engine is
\* invoked only after the earlier stages, and every successful response has had
\* its metrics recomputed after the engine ran
C5_StagesInOrder ==
    /\ (Answered /\ PosIn(solveResp.stages, "invoke") > 0) =>
          /\ Before("get_solver", "normalize_matrix")
          /\ Before("normalize_matrix", "required_check")
          /\ Before("required_check", "invoke")
    /\ Success =>
          /\ Before("invoke", "enrich")
          /\ Before("enrich", "respond")

\* the nodes of the problem: those of the matrix, or of the waypoints when there
\* is no matrix
ProblemNodes ==
    IF canonical_matrix(solveReq).some
    THEN NodesOf(Len(canonical_matrix(solveReq).val.distances))
    ELSE NodesOf(Len(solveReq.waypoints.val))

\* the routes of the response that visit the node
RoutesVisiting(node) ==
    {r \in DOMAIN solveResp.routes : PosIn(solveResp.routes[r].waypoint_ids, ToStr(node)) > 0}

\* C6: in a successful result every non-depot node of the problem is in exactly one
\* route (the handler never enables dropping, and a result reports no dropped node)
C6_EachNodeInOneRoute ==
    Success =>
        \A node \in ProblemNodes \ {solveReq.depot_index} :
            Cardinality(RoutesVisiting(node)) = 1

\* C7: when a request with pickup_delivery_pairs is answered with success, every
\* pair's pickup and delivery are in one route, the pickup first, whichever the
\* engine
C7_PickupBeforeDelivery ==
    (Success /\ solveReq.pickup_delivery_pairs.some) =>
        \A p \in DOMAIN solveReq.pickup_delivery_pairs.val :
            \E r \in DOMAIN solveResp.routes :
                LET ids == solveResp.routes[r].waypoint_ids
                    pair == solveReq.pickup_delivery_pairs.val[p]
                IN /\ PosIn(ids, ToStr(pair.pickup)) > 0
                   /\ PosIn(ids, ToStr(pair.delivery)) > 0
                   /\ PosIn(ids, ToStr(pair.pickup)) < PosIn(ids, ToStr(pair.delivery))

\* the sum of M.distances[a][b] over the consecutive pairs (a, b) of a route's nodes
LegsTotal(distances, ids) ==
    SumSeq([i \in 1..(Len(ids) - 1) |-> distances[ToInt(ids[i]) + 1][ToInt(ids[i + 1]) + 1]])

Enriched == Answered /\ PosIn(solveResp.stages, "enrich") > 0

\* C8: after the enricher has run on the routes with matrix M, each route's
\* total_distance is the sum of M.distances[a][b] over the consecutive pairs of its
\* nodes, whatever total the engine reported
C8_EnrichedTotalDistance ==
    Enriched =>
        \A r \in DOMAIN solveResp.routes :
            solveResp.routes[r].total_distance =
                LegsTotal(canonical_matrix(solveReq).val.distances,
                          solveResp.routes[r].waypoint_ids)

\* the enricher ran on a route whose engine had reported another total
C8_Witness ==
    /\ Enriched
    /\ \E r \in DOMAIN solveResp.routes :
          /\ Len(solveResp.routes[r].waypoint_ids) >= 3
          /\ solveResp.engine_routes[r].total_distance # solveResp.routes[r].total_distance
          /\ solveResp.routes[r].total_distance > 0

\* the exceptions that are none of the service's typed errors
UntypedExceptions == {"Exception", "TypeError", "ValueError"}

\* C9: no exception raised while a solve request is handled is swallowed: an untyped
\* failure in normalization or in the engine ends in a 500 response, never in a
\* response with status success
C9_NoExceptionSwallowed ==
    (Answered /\ solveResp.raised \in UntypedExceptions) =>
        (solveResp.http = 500 /\ solveResp.status # "success")

\* C10: a request that names a plugin that is not registered is answered with 400,
\* a solve request naming an unknown engine as well as a matrix request naming an
\* unknown adapter
C10_UnknownPluginIs400 ==
    /\ (Answered /\ solver_key(solveReq.solver) \notin RegisteredSolvers) =>
          solveResp.http = 400
    /\ \A t \in DOMAIN task :
          (task[t].pc = "done" /\ ~task[t].registered) => task[t].status = 400

---------------------------------------------------------------------------
(* Claims about the matrix endpoints *)

\* C11: a matrix request whose provider call timed out, was answered with a
\* non-2xx status or with a body that cannot be parsed, is answered with 502
C11_UpstreamFailureIs502 ==
    \A t \in DOMAIN task :
        (task[t].pc = "done" /\ task[t].upstream \in UpstreamFailures) =>
            task[t].status = 502

\* C12: a matrix request invokes its adapter only after a lookup of the TTL cache
\* that missed, and a request answered with the adapter's result has stored it
\* in the cache after the invocation
C12_CacheBeforeAdapter ==
    \A t \in DOMAIN task :
        LET s == task[t].steps IN
        /\ \A i \in DOMAIN s :
              s[i] = "invoke" => \E j \in 1..(i - 1) : s[j] = "cache_miss"
        /\ (task[t].pc = "done" /\ task[t].status = 200
                /\ \E i \in DOMAIN s : s[i] = "invoke")
              => \E i, j \in DOMAIN s : i < j /\ s[i] = "invoke" /\ s[j] = "cache_set"

---------------------------------------------------------------------------
(* Claims about the cache's expiry and its bound.  `store` is the dict in    *)
(* its own order, the order in which the keys present were inserted.        *)

\* the coroutine c makes a call of the given kind in this step
Calls(c, kind) == co[c].pc = "idle" /\ co'[c].pc = "done" /\ co'[c].kind = kind

\* C13: a get on a key whose entry has an expiry earlier than the current time
\* returns None, never the stored value, and the entry is removed
C13_ExpiredIsMiss ==
    [][\A c \in DOMAIN co :
         Calls(c, "get") =>
            LET i == IndexOf(store, co'[c].key) IN
            (i # 0 /\ now > store[i].exp) =>
                (co'[c].ret = None /\ IndexOf(store', co'[c].key) = 0)]_vars

\* a get, alone in its round, found the entry of its key expired and missed
C13_Witness ==
    \E c \in DOMAIN co :
        /\ co[c].pc = "done" /\ co[c].kind = "get" /\ co[c].ret = None
        /\ \A d \in DOMAIN co \ {c} : co[d].pc = "idle"
        /\ IndexOf(store0, co[c].key) # 0
        /\ store0[IndexOf(store0, co[c].key)].exp < co[c].tInv
        /\ IndexOf(store, co[c].key) = 0

\* C14: the cache never holds more than maxsize entries, whatever was set
C14_SizeAtMostMaxsize == Len(store) <= Maxsize

\* a set of a key that was absent, alone in its round, on a full cache: the cache
\* is full again
C14_Witness ==
    \E c \in DOMAIN co :
        /\ co[c].pc = "done" /\ co[c].kind = "set"
        /\ \A d \in DOMAIN co \ {c} : co[d].pc = "idle"
        /\ Len(store0) = Maxsize
        /\ IndexOf(store0, co[c].key) = 0
        /\ IndexOf(store, co[c].key) # 0
        /\ Len(store) = Maxsize

\* C15: a set on a full cache removes the entry that is first in insertion
\* order and no other: every other entry is still there, unchanged and in the
\* same order, unless it is the entry of the key being set, and the key set is
\* bound to the new value
C15_FullSetEvictsOldest ==
    [][\A c \in DOMAIN co :
         (Calls(c, "set") /\ Len(store) >= Maxsize) =>
            LET k == co'[c].key
                kept == SelectSeq(Tail(store), LAMBDA e : e.key # k)
                after == SelectSeq(store', LAMBDA e : e.key # k)
            IN
            /\ after = kept
            /\ \A j \in DOMAIN store' : store'[j].key = store[1].key => store[1].key = k
            /\ IndexOf(store', k) # 0
            /\ store'[IndexOf(store', k)] = [key |-> k, exp |-> now + Ttl, val |-> co'[c].arg]]_vars

\* a set of a key that was absent, alone in its round, on a full cache: the oldest
\* entry is gone, the others moved up and the new entry is last
C15_Witness ==
    \E c \in DOMAIN co :
        /\ co[c].pc = "done" /\ co[c].kind = "set"
        /\ \A d \in DOMAIN co \ {c} : co[d].pc = "idle"
        /\ Len(store0) >= Maxsize
        /\ IndexOf(store0, co[c].key) = 0
        /\ IndexOf(store, store0[1].key) = 0
        /\ Tail(store0) = SubSeq(store, 1, Len(store) - 1)
        /\ store[Len(store)].key = co[c].key

\* C29: a set on a key that is present replaces the entry of that key only: the
\* entry of every other key is still in the cache afterwards, also when the
\* cache holds maxsize entries
C29_SetPresentKeepsOthers ==
    [][\A c \in DOMAIN co :
         (Calls(c, "set") /\ IndexOf(store, co'[c].key) # 0) =>
            \A j \in DOMAIN store :
                store[j].key # co'[c].key =>
                    \E i \in DOMAIN store' : store'[i] = store[j]]_vars

---------------------------------------------------------------------------
(* core/adapter_factory_registry.py, services/solver_factory.py and the     *)
(* plugin loader (core/load_plugins.py, core/register_adapters.py).  The    *)
(* registries and the two _registered flags are globals of the process.     *)
(* A factory is known by a name; those of the loader by their class.        *)

MaxRegCalls == 3        \* calls of register / load_plugins in one run of the process

Factories == {"f1", "f2"}

\* what the loader reads: two feature flags, the buffer of the local-graph
\* adapter, whether an ORS key is configured (settings or environment) and
\* whether the ortools package can be imported.  No Mapbox or Google key is
\* configured, and pyomo can be imported, in every environment drawn.
Environs ==
    [ENABLE_HAVERSINE : {"0", "1"}, ENABLE_OSM_GRAPH : {"0", "1"},
     OSM_GRAPH_BUFFER_M : {"3000", "abc"}, ORS_API_KEY : BOOLEAN,
     ortools_installed : BOOLEAN]

\* the strings int() accepts, among the values of OSM_GRAPH_BUFFER_M drawn
IntLiterals == {"3000"}

\* dict[key] = value
Bind(registry, key, value) ==
    [k \in DOMAIN registry \cup {key} |-> IF k = key THEN value ELSE registry[k]]

\* a variant of register that binds the name again
register_rebinding(registry, name, factory) ==
    [registry |-> Bind(registry, lower_strip(name), factory), raised |-> "none"]

\* AdapterFactoryRegistry.register(name, factory)
AdapterFactoryRegistry_register(registry, name, factory) ==
    LET key == lower_strip(name) IN
    IF key \in DOMAIN registry THEN [registry |-> registry, raised |-> "ValueError"]
    ELSE [registry |-> Bind(registry, key, factory), raised |-> "none"]

\* register_solver(name, ctor)
register_solver(registry, name, ctor) ==
    LET key == solver_key(name) IN
    IF key \in DOMAIN registry THEN [registry |-> registry, raised |-> "ValueError"]
    ELSE [registry |-> Bind(registry, key, ctor), raised |-> "none"]

\* _safe_register(name, factory): register, any exception ignored
safe_register(registry, name, factory) ==
    AdapterFactoryRegistry_register(registry, name, factory).registry

\* register_adapters(): the registry and the flag after the call, and what it raised
register_adapters(registry, registered, env) ==
    IF registered THEN [registry |-> registry, registered |-> TRUE, raised |-> "none"]
    ELSE
    LET r1 == IF env.ENABLE_HAVERSINE = "1"
              THEN safe_register(registry, "haversine", "HaversineAdapter")
              ELSE registry
    IN
    IF env.ENABLE_OSM_GRAPH # "0" /\ env.OSM_GRAPH_BUFFER_M \notin IntLiterals
    THEN [registry |-> r1, registered |-> FALSE, raised |-> "ValueError"]
    ELSE
    LET r2 == IF env.ENABLE_OSM_GRAPH # "0"
              THEN safe_register(safe_register(r1, "osm_graph", "OsmGraphAdapter"),
                                 "euclidean", "EuclideanAdapter")
              ELSE r1
        r3 == IF env.ORS_API_KEY
              THEN safe_register(r2, "openrouteservice", "ORSDistanceMatrixAdapter")
              ELSE r2
    IN [registry |-> r3, registered |-> TRUE, raised |-> "none"]

\* register_solvers(): the three late imports, then the three register_solver calls
register_solvers(registry, registered, env) ==
    IF registered THEN [registry |-> registry, registered |-> TRUE, raised |-> "none"]
    ELSE IF ~env.ortools_installed
    THEN [registry |-> registry, registered |-> FALSE, raised |-> "ImportError"]
    ELSE
    LET o == register_solver(registry, "ortools", "OrToolsSolver")
        v == register_solver(o.registry, "vroom", "VroomSolver")
        p == register_solver(v.registry, "pyomo", "PyomoSolver")
    IN
    IF o.raised # "none" THEN [registry |-> o.registry, registered |-> FALSE, raised |-> o.raised]
    ELSE IF v.raised # "none" THEN [registry |-> v.registry, registered |-> FALSE, raised |-> v.raised]
    ELSE IF p.raised # "none" THEN [registry |-> p.registry, registered |-> FALSE, raised |-> p.raised]
    ELSE [registry |-> p.registry, registered |-> TRUE, raised |-> "none"]

\* load_plugins(): register_adapters(), then register_solvers(), then the two
\* listings; an exception of the first call ends the loader
load_plugins(adapters, aDone, solvers, sDone, env) ==
    LET a == register_adapters(adapters, aDone, env)
        sv == register_solvers(solvers, sDone, env)
    IN
    IF a.raised # "none"
    THEN [adapters |-> a.registry, aDone |-> a.registered, solvers |-> solvers,
          sDone |-> sDone, raised |-> a.raised]
    ELSE [adapters |-> a.registry, aDone |-> a.registered, solvers |-> sv.registry,
          sDone |-> sv.registered, raised |-> sv.raised]

\* an entry of the log: the call, what it raised and the registries after it
LogEntry(op, name, factory, raised, adapters, solvers) ==
    [op |-> op, name |-> name, factory |-> factory, raised |-> raised,
     adapters |-> adapters, solvers |-> solvers]

\* some code calls AdapterFactoryRegistry.register(name, factory)
RegisterAdapter(name, factory) ==
    /\ Len(regLog) < MaxRegCalls
    /\ LET r == AdapterFactoryRegistry_register(factories, name, factory) IN
        /\ factories' = r.registry
        /\ regLog' = Append(regLog, LogEntry("register_adapter", name, factory, r.raised,
                                             r.registry, solverRegistry))
    /\ UNCHANGED <<adaptersRegistered, solverRegistry, solversRegistered, environ>>
    /\ UNCHANGED notRegistry

\* some code calls register_solver(name, ctor)
RegisterSolver(name, ctor) ==
    /\ Len(regLog) < MaxRegCalls
    /\ LET r == register_solver(solverRegistry, name, ctor) IN
        /\ solverRegistry' = r.registry
        /\ regLog' = Append(regLog, LogEntry("register_solver", name, ctor, r.raised,
                                             factories, r.registry))
    /\ UNCHANGED <<factories, adaptersRegistered, solversRegistered, environ>>
    /\ UNCHANGED notRegistry

\* the application's lifespan, or any other code, calls load_plugins()
LoadPlugins ==
    /\ Len(regLog) < MaxRegCalls
    /\ LET r == load_plugins(factories, adaptersRegistered, solverRegistry,
                             solversRegistered, environ) IN
        /\ factories' = r.adapters
        /\ adaptersRegistered' = r.aDone
        /\ solverRegistry' = r.solvers
        /\ solversRegistered' = r.sDone
        /\ regLog' = Append(regLog, LogEntry("load_plugins", "", "", r.raised,
                                             r.adapters, r.solvers))
    /\ UNCHANGED environ
    /\ UNCHANGED notRegistry

InitRegistry ==
    /\ factories = EmptyRegistry
    /\ adaptersRegistered = FALSE
    /\ solverRegistry = EmptyRegistry
    /\ solversRegistered = FALSE
    /\ environ \in Environs
    /\ regLog = <<>>
    /\ TwUnused
    /\ FnUnused
    /\ store = <<>>
    /\ now = 0
    /\ store0 = <<>>
    /\ now0 = 0
    /\ co = <<>>
    /\ builderCalls = <<>>
    /\ task = <<>>
    /\ adapterCalls = <<>>
    /\ orsApiKey = FALSE
    /\ graphs = <<>>
    /\ graphBuilds = <<>>
    /\ solvePc = "idle"
    /\ solveReq = <<>>
    /\ solveResp = <<>>

NextRegistry ==
    \/ \E name \in AdapterNames, factory \in Factories : RegisterAdapter(name, factory)
    \/ \E name \in SolverNames, ctor \in Factories : RegisterSolver(name, ctor)
    \/ LoadPlugins

SpecRegistry == InitRegistry /\ [][NextRegistry]_vars

---------------------------------------------------------------------------
(* Claims about the registries and the loader *)

\* the registries as call i of the log found them
RegBefore(i) ==
    IF i = 1 THEN [adapters |-> EmptyRegistry, solvers |-> EmptyRegistry]
    ELSE [adapters |-> regLog[i - 1].adapters, solvers |-> regLog[i - 1].solvers]

\* C16: a register call whose name, trimmed and lowercased, is already bound
\* raises and leaves the registry as it was, the name bound to its first factory;
\* in the adapter registry and in the solver registry
C16_DuplicateRegisterFails ==
    \A i \in DOMAIN regLog :
        LET e == regLog[i]
            b == RegBefore(i)
        IN
        /\ (e.op = "register_adapter" /\ lower_strip(e.name) \in DOMAIN b.adapters) =>
              (e.raised # "none" /\ e.adapters = b.adapters)
        /\ (e.op = "register_solver" /\ solver_key(e.name) \in DOMAIN b.solvers) =>
              (e.raised # "none" /\ e.solvers = b.solvers)

\* a name was registered again in another spelling and with another factory: the
\* call raised and the first factory is still bound
C16_Witness ==
    \E i \in DOMAIN regLog :
        LET e == regLog[i]
            b == RegBefore(i)
            key == lower_strip(e.name)
        IN
        /\ e.op = "register_adapter"
        /\ e.name # key
        /\ key \in DOMAIN b.adapters
        /\ b.adapters[key] # e.factory
        /\ e.raised = "ValueError"
        /\ factories[key] = b.adapters[key]

\* C17: where nothing fails to initialize, no run of the loader raises, whatever
\* was registered before it, and a run after the first one leaves both registries
\* with the names they had
C17_LoaderIdempotent ==
    \A i \in DOMAIN regLog :
        LET e == regLog[i]
            b == RegBefore(i)
        IN
        (/\ e.op = "load_plugins"
         /\ environ.OSM_GRAPH_BUFFER_M \in IntLiterals
         /\ environ.ortools_installed)
        => /\ e.raised = "none"
           /\ (\E j \in 1..(i - 1) : regLog[j].op = "load_plugins") =>
                 (DOMAIN e.adapters = DOMAIN b.adapters /\ DOMAIN e.solvers = DOMAIN b.solvers)

\* what an adapter or an engine of the loader needs for itself
AdapterPrerequisites ==
    [haversine |-> environ.ENABLE_HAVERSINE = "1",
     osm_graph |-> environ.ENABLE_OSM_GRAPH # "0" /\ environ.OSM_GRAPH_BUFFER_M \in IntLiterals,
     euclidean |-> TRUE,
     openrouteservice |-> environ.ORS_API_KEY]
EnginePrerequisites ==
    [ortools |-> environ.ortools_installed, vroom |-> TRUE, pyomo |-> TRUE]

\* C18: after the loader has run on the empty registries, every adapter and every
\* engine whose own prerequisites are met is registered, whatever is disabled,
\* unconfigured or failing for the others
C18_FailureDisablesOnlyOne ==
    (Len(regLog) >= 1 /\ regLog[1].op = "load_plugins") =>
        /\ \A name \in DOMAIN AdapterPrerequisites :
              AdapterPrerequisites[name] => name \in DOMAIN regLog[1].adapters
        /\ \A name \in DOMAIN EnginePrerequisites :
              EnginePrerequisites[name] => name \in DOMAIN regLog[1].solvers

---------------------------------------------------------------------------
(* One node's time window and service time from the request to the engine:  *)
(* _normalize_optional_arrays_for_solver in api/solver_routes.py, then what  *)
(* the engine does with them before it builds its model                      *)
(* (_normalize_inputs_for_matrix in ortools_solver.py, the tw_bounds of      *)
(* pyomo_solver.py).  The request carries a matrix; its arrays have the      *)
(* matrix's length.  The values are the integers pydantic hands over.        *)

TwValues == {0, 8, 17, 48, 49, 600, 1440, 1441, 5000}
SvcValues == {0, 2, 48, 49, 1440, 1441}

\* an entry of node_time_windows: None, or [start, end]
TwInputs == {Nothing} \cup {Some(<<a, b>>) : a, b \in TwValues}

TwCases == [solver : {"ortools", "pyomo"}, window : TwInputs, service : SvcValues]

\* _normalize_optional_arrays_for_solver on one entry of node_time_windows
facade_window(tw) ==
    IF ~tw.some THEN <<0, INF>>
    ELSE LET start == tw.val[1]
             end == tw.val[2]
         IN <<start, IF end < start THEN start ELSE end>>

\* _tw_pair_to_seconds(a, b)
tw_pair_to_seconds(a, b) ==
    LET mx == IF a >= b THEN a ELSE b IN
    IF mx <= 48 THEN <<a * 3600, b * 3600>>
    ELSE IF mx <= 1440 THEN <<a * 60, b * 60>>
    ELSE <<a, b>>

\* _svc_to_seconds(s)
svc_to_seconds(sv) ==
    IF sv <= 0 THEN 0
    ELSE IF sv <= 48 THEN sv * 3600
    ELSE IF sv <= 1440 THEN sv * 60
    ELSE sv

\* _normalize_inputs_for_matrix on one node: the pair converted, then swapped
\* when its first bound is the larger one
ortools_node(tw, sv) ==
    LET c == tw_pair_to_seconds(tw[1], tw[2]) IN
    [window |-> IF c[1] > c[2] THEN <<c[2], c[1]>> ELSE c,
     service |-> svc_to_seconds(sv), raised |-> "none"]

\* PyomoSolver.solve on one node: the bounds as they come, SolverError when the
\* upper one is below the lower one
pyomo_node(tw, sv) ==
    IF tw[2] < tw[1] THEN [window |-> tw, service |-> sv, raised |-> "SolverError"]
    ELSE [window |-> tw, service |-> sv, raised |-> "none"]

\* from the request to the engine's model
engine_node(case) ==
    LET tw == facade_window(case.window) IN
    IF case.solver = "ortools" THEN ortools_node(tw, case.service)
    ELSE pyomo_node(tw, case.service)

\* the handler normalizes the arrays and the engine prepares its model
TwNormalize ==
    /\ twOut = <<>>
    /\ twOut' = engine_node(twCase)
    /\ UNCHANGED twCase
    /\ UNCHANGED notTw

InitTw ==
    /\ twCase \in TwCases
    /\ twOut = <<>>
    /\ RegistryUnused
    /\ FnUnused
    /\ store = <<>>
    /\ now = 0
    /\ store0 = <<>>
    /\ now0 = 0
    /\ co = <<>>
    /\ builderCalls = <<>>
    /\ task = <<>>
    /\ adapterCalls = <<>>
    /\ orsApiKey = FALSE
    /\ graphs = <<>>
    /\ graphBuilds = <<>>
    /\ solvePc = "idle"
    /\ solveReq = <<>>
    /\ solveResp = <<>>

NextTw == TwNormalize

SpecTw == InitTw /\ [][NextTw]_vars

\* the factor the claim gives for a value or a pair whose largest value is mx
UnitFactor(mx) == IF mx <= 48 THEN 3600 ELSE IF mx <= 1440 THEN 60 ELSE 1

\* C19: the window an engine works with has both bounds of the given window
\* (start <= end) multiplied by 3600 if the larger is at most 48, by 60 if it is
\* at most 1440, by 1 otherwise; the service time likewise, by its own value
C19_TimeUnitsConverted ==
    (twOut # <<>> /\ twCase.window.some /\ twCase.window.val[1] <= twCase.window.val[2]) =>
        LET a == twCase.window.val[1]
            b == twCase.window.val[2]
            f == UnitFactor(Larger(a, b))
        IN
        /\ twOut.raised = "none"
        /\ twOut.window = <<a * f, b * f>>
        /\ twOut.service = twCase.service * UnitFactor(twCase.service)

\* C20: a given window whose start exceeds its end reaches the engine with its two
\* bounds swapped (in the unit the engine works in), start <= end
C20_InvertedWindowSwapped ==
    (twOut # <<>> /\ twCase.window.some /\ twCase.window.val[1] > twCase.window.val[2]) =>
        LET a == twCase.window.val[1]
            b == twCase.window.val[2]
        IN
        /\ twOut.raised = "none"
        /\ twOut.window[1] <= twOut.window[2]
        /\ \E f \in {1, 60, 3600} : twOut.window = <<b * f, a * f>>

---------------------------------------------------------------------------
(* Further claims about the solve endpoint *)

\* C21: a solve request whose depot_index is no node of the problem is answered
\* with an error, whichever engine it names: no engine returns routes for it
C21_DepotOutOfRangeRejected ==
    (/\ Answered
     /\ canonical_matrix(solveReq).some \/ solveReq.waypoints.some
     /\ solveReq.depot_index \notin ProblemNodes) => ~Success

---------------------------------------------------------------------------
(* Matrix adapters, one call each (SpecAdapters).                          *)
(*                                                                         *)
(* fnCall is a MatrixRequest handed to one adapter; fnOut is the            *)
(* MatrixResult it returns, or the exception it raises.  The provider is    *)
(* the road network below: three places, one of them with no road to or     *)
(* from the others.  A float of a result is held as Float(v) or as Inf;     *)
(* kilometres are held in thousandths, so that v / 1000.0 of a whole        *)
(* number of metres v is exact.                                             *)

MaxPlaces == 2          \* longest list of origins or destinations

\* the variables of the other specifications, unused
OthersUnused ==
    /\ RegistryUnused
    /\ TwUnused
    /\ store = <<>>
    /\ now = 0
    /\ store0 = <<>>
    /\ now0 = 0
    /\ co = <<>>
    /\ builderCalls = <<>>
    /\ task = <<>>
    /\ adapterCalls = <<>>
    /\ orsApiKey = FALSE
    /\ graphs = <<>>
    /\ graphBuilds = <<>>
    /\ solvePc = "idle"
    /\ solveReq = <<>>
    /\ solveResp = <<>>

Coordinate == {[lat |-> 1, lon |-> 1], [lat |-> 1, lon |-> 2], [lat |-> 2, lon |-> 1]}
CoordinateLists == UNION {[1..k -> Coordinate] : k \in 1..MaxPlaces}

\* MatrixRequest: origins and destinations are never empty (non_empty), and
\* parameters may be absent
MatrixRequests ==
    [adapter : {"openrouteservice", "google", "osm_graph"}, origins : CoordinateLists,
     destinations : CoordinateLists, parameters : {Nothing, Some("driving")}]

Float(v) == [finite |-> TRUE, val |-> v]
Inf == [finite |-> FALSE]

\* the provider's road network over [lon, lat] points: metres and seconds of the
\* shortest road from a to b (roads are one-way, so the two directions differ),
\* and the place that no road reaches
RoadMeters(a, b) ==
    IF a = b THEN 0
    ELSE 400 * Abs(a[1] - b[1]) + 300 * Abs(a[2] - b[2]) + (IF a[1] < b[1] THEN 50 ELSE 0)
RoadSeconds(a, b) == RoadMeters(a, b) \div 10
Island == <<1, 2>>
Reachable(a, b) == a = b \/ (a # Island /\ b # Island)

as_lonlat(coord) == <<coord.lon, coord.lat>>
as_key(coord) == <<coord.lat, coord.lon>>

MatrixReturned(distances, durations) ==
    [raised |-> "none", distances |-> distances, durations |-> durations]
MatrixRaised(exc) == [raised |-> exc, distances |-> <<>>, durations |-> <<>>]

\* get_matrix step 2: the distinct coordinates, in the order of first appearance
RECURSIVE unique_coords(_)
unique_coords(all_coords) ==
    IF all_coords = <<>> THEN <<>>
    ELSE LET before == unique_coords(SubSeq(all_coords, 1, Len(all_coords) - 1))
             coord == all_coords[Len(all_coords)]
         IN IF \E i \in DOMAIN before : before[i] = as_key(coord)
            THEN before ELSE Append(before, as_key(coord))

\* coord_index_map[key], counted from 0
coord_index_map(uniq, key) == (CHOOSE i \in DOMAIN uniq : uniq[i] = key) - 1

\* the body the adapter posts
ors_payload(request) ==
    LET uniq == unique_coords(request.origins \o request.destinations)
    IN [locations |-> [i \in DOMAIN uniq |-> <<uniq[i][2], uniq[i][1]>>],
        sources |-> [i \in DOMAIN request.origins |->
                        coord_index_map(uniq, as_key(request.origins[i]))],
        destinations |-> [j \in DOMAIN request.destinations |->
                        coord_index_map(uniq, as_key(request.destinations[j]))]]

\* the provider's answer to the body: one row per source, one column per
\* destination, null where there is no road
ors_response(payload) ==
    LET from(i) == payload.locations[payload.sources[i] + 1]
        to(j) == payload.locations[payload.destinations[j] + 1]
    IN [distances |-> [i \in DOMAIN payload.sources |-> [j \in DOMAIN payload.destinations |->
            IF Reachable(from(i), to(j)) THEN Some(RoadMeters(from(i), to(j))) ELSE Nothing]],
        durations |-> [i \in DOMAIN payload.sources |-> [j \in DOMAIN payload.destinations |->
            IF Reachable(from(i), to(j)) THEN Some(RoadSeconds(from(i), to(j))) ELSE Nothing]]]

SetMax(S) == CHOOSE x \in S : \A y \in S : y <= x

\* _normalize_distances_in_place(data, "m"): n is the number of rows, and both
\* loops run i and j over range(n); Nothing for the IndexError of a row shorter
\* than n, else the distances as the function leaves them
normalize_distances_in_place(distances) ==
    LET n == Len(distances)
        cols == Len(distances[1])
        offdiag == {distances[p[1]][p[2]].val :
                      p \in {q \in (1..n) \X (1..n) :
                                q[1] # q[2] /\ q[2] <= cols /\ distances[q[1]][q[2]].some}}
        factor == IF SetMax(offdiag) > 0 /\ SetMax(offdiag) < 20 THEN 1000 ELSE 1
    IN IF n > cols THEN Nothing
       ELSE IF offdiag = {} THEN Some(distances)
       ELSE Some([i \in 1..n |-> [j \in 1..cols |->
               IF j > n THEN distances[i][j]
               ELSE IF i = j THEN Some(0)
               ELSE IF distances[i][j].some THEN Some(distances[i][j].val * factor)
               ELSE Nothing]])

\* MatrixResult.from_ors: (v or 0) / 1000.0 for the distances, the durations as
\* they came; a null among the durations fails the validation of List[List[float]]
from_ors(data) ==
    IF \E i \in DOMAIN data.durations : \E j \in DOMAIN data.durations[i] :
           ~data.durations[i][j].some
    THEN MatrixRaised("ValidationError")
    ELSE MatrixReturned(
           [i \in DOMAIN data.distances |-> [j \in DOMAIN data.distances[i] |->
               IF data.distances[i][j].some THEN Float(data.distances[i][j].val) ELSE Float(0)]],
           [i \in DOMAIN data.durations |-> [j \in DOMAIN data.durations[i] |->
               Float(data.durations[i][j].val)]])

\* ORSDistanceMatrixAdapter.get_matrix: every exception leaves as a
\* DistanceMatrixRequestError
ORSDistanceMatrixAdapter_get_matrix(request) ==
    LET data == ors_response(ors_payload(request))
        normalized == normalize_distances_in_place(data.distances)
    IN IF ~normalized.some THEN MatrixRaised("DistanceMatrixRequestError")
       ELSE LET result == from_ors([distances |-> normalized.val, durations |-> data.durations])
            IN IF result.raised # "none" THEN MatrixRaised("DistanceMatrixRequestError")
               ELSE result

\* the provider's answer to the Google request: rows of elements in the order of
\* the origins and destinations sent
google_response(request) ==
    [i \in DOMAIN request.origins |-> [j \in DOMAIN request.destinations |->
        LET a == as_lonlat(request.origins[i])
            b == as_lonlat(request.destinations[j])
        IN IF Reachable(a, b)
           THEN [status |-> "OK", distance |-> RoadMeters(a, b), duration |-> RoadSeconds(a, b)]
           ELSE [status |-> "ZERO_RESULTS", distance |-> 0, duration |-> 0]]]

\* MatrixResult.from_google
from_google(rows) ==
    MatrixReturned(
        [i \in DOMAIN rows |-> [j \in DOMAIN rows[i] |->
            IF rows[i][j].status = "OK" THEN Float(rows[i][j].distance) ELSE Inf]],
        [i \in DOMAIN rows |-> [j \in DOMAIN rows[i] |->
            IF rows[i][j].status = "OK" THEN Float(rows[i][j].duration) ELSE Inf]])

\* GoogleMatrixAdapter.get_matrix: request.parameters.get fails when the request
\* has no parameters
GoogleMatrixAdapter_get_matrix(request) ==
    IF ~request.parameters.some THEN MatrixRaised("DistanceMatrixRequestError")
    ELSE from_google(google_response(request))

INF_DISTANCE_KM == 1000000      \* _INF_DISTANCE_KM = 1e6
INF_DURATION_S == 10000000      \* _INF_DURATION_S = 1e7

\* OSMGraphAdapter.build: one Dijkstra per origin over the graph of the places
OSMGraphAdapter_build(origins, destinations) ==
    LET dm(i, j) == RoadMeters(as_lonlat(origins[i]), as_lonlat(destinations[j]))
        tm(i, j) == RoadSeconds(as_lonlat(origins[i]), as_lonlat(destinations[j]))
        reached(i, j) == Reachable(as_lonlat(origins[i]), as_lonlat(destinations[j]))
    IN MatrixReturned(
        [i \in DOMAIN origins |-> [j \in DOMAIN destinations |->
            IF reached(i, j) THEN Float(dm(i, j)) ELSE Float(INF_DISTANCE_KM * 1000)]],
        [i \in DOMAIN origins |-> [j \in DOMAIN destinations |->
            IF reached(i, j) THEN Float(tm(i, j)) ELSE Float(INF_DURATION_S)]])

CallOrs ==
    /\ fnOut = <<>>
    /\ fnCall.adapter = "openrouteservice"
    /\ fnOut' = ORSDistanceMatrixAdapter_get_matrix(fnCall)
    /\ UNCHANGED fnCall
    /\ UNCHANGED notFn

CallGoogle ==
    /\ fnOut = <<>>
    /\ fnCall.adapter = "google"
    /\ fnOut' = GoogleMatrixAdapter_get_matrix(fnCall)
    /\ UNCHANGED fnCall
    /\ UNCHANGED notFn

CallOsm ==
    /\ fnOut = <<>>
    /\ fnCall.adapter = "osm_graph"
    /\ fnOut' = OSMGraphAdapter_build(fnCall.origins, fnCall.destinations)
    /\ UNCHANGED fnCall
    /\ UNCHANGED notFn

InitAdapters ==
    /\ fnCall \in MatrixRequests
    /\ fnOut = <<>>
    /\ OthersUnused

NextAdapters == CallOrs \/ CallGoogle \/ CallOsm

SpecAdapters == InitAdapters /\ [][NextAdapters]_vars

\* the adapter has returned a matrix
MatrixDone == fnOut # <<>> /\ fnOut.raised = "none"

\* C22: in every matrix an adapter returns, the distance at [i][j] is the road
\* distance from origins[i] to destinations[j] wherever there is a road, also
\* when the two lists differ or hold a coordinate more than once
C22_EntryIsForItsPair ==
    MatrixDone =>
        \A i \in DOMAIN fnCall.origins : \A j \in DOMAIN fnCall.destinations :
            LET a == as_lonlat(fnCall.origins[i])
                b == as_lonlat(fnCall.destinations[j])
            IN Reachable(a, b) => fnOut.distances[i][j] = Float(RoadMeters(a, b))

\* C23: no matrix an adapter returns holds a non-finite value, and a pair the
\* provider has no road for holds a large finite value
C23_NoNonFiniteValue ==
    MatrixDone =>
        \A i \in DOMAIN fnCall.origins : \A j \in DOMAIN fnCall.destinations :
            /\ fnOut.distances[i][j].finite
            /\ fnOut.durations[i][j].finite
            /\ ~Reachable(as_lonlat(fnCall.origins[i]), as_lonlat(fnCall.destinations[j]))
                  => /\ fnOut.distances[i][j].val >= INF_DISTANCE_KM
                     /\ fnOut.durations[i][j].val >= INF_DURATION_S

---------------------------------------------------------------------------
(* The nearest-neighbour fallback of the vroom engine, one call each        *)
(* (SpecNn): fnCall is a square matrix and a depot among its nodes, fnOut   *)
(* the path _nn_path returns.                                               *)

MaxNodes == 3           \* largest matrix drawn

\* the square matrices of n nodes: 0 on the diagonal, 1 or 2 elsewhere
SquareMatrices(n) ==
    {[i \in 1..n |-> [j \in 1..n |-> IF i = j THEN 0 ELSE f[<<i, j>>]]] :
        f \in [{a \in (1..n) \X (1..n) : a[1] # a[2]} -> 1..2]}

NnCalls ==
    UNION {[dist : SquareMatrices(n), depot : NodesOf(n)] : n \in 1..MaxNodes}

CallNnPath ==
    /\ fnOut = <<>>
    /\ fnOut' = [path |-> nn_path(fnCall.dist, fnCall.depot)]
    /\ UNCHANGED fnCall
    /\ UNCHANGED notFn

InitNn ==
    /\ fnCall \in NnCalls
    /\ fnOut = <<>>
    /\ OthersUnused

NextNn == CallNnPath

SpecNn == InitNn /\ [][NextNn]_vars

\* C28: for a square matrix of n nodes and a depot among them, the fallback's
\* path has n + 1 nodes, starts and ends at the depot, and holds every other
\* node exactly once
C28_NnTourVisitsAllOnce ==
    fnOut # <<>> =>
        LET n == Len(fnCall.dist)
            path == fnOut.path
        IN /\ Len(path) = n + 1
           /\ path[1] = fnCall.depot
           /\ path[n + 1] = fnCall.depot
           /\ \A v \in NodesOf(n) \ {fnCall.depot} :
                 Cardinality({i \in 2..n : path[i] = v}) = 1
           /\ \A i \in 2..n : path[i] # fnCall.depot

\* a tour of three nodes from the depot 1 that goes to the nearer node first,
\* which is not the node of the smaller index
C28_Witness ==
    /\ fnOut # <<>>
    /\ Len(fnCall.dist) = 3
    /\ fnCall.depot = 1
    /\ fnOut.path = <<1, 2, 0, 1>>

---------------------------------------------------------------------------
(* The benchmark loaders and the writer, one call each (SpecLoaders).       *)
(*                                                                         *)
(* A Solomon file is held as the rows of its CUSTOMER table, in the order   *)
(* of the file, with the columns that carry time (the ids drawn are 0..n-1, *)
(* the numbering of the benchmark).  A planar file is held as its header    *)
(* fields and its keyed sections, a coordinate in units of 1e-7.            *)

SECONDS_PER_MIN == 60

Smaller(a, b) == IF a < b THEN a ELSE b

SolomonIds == {<<0, 1>>, <<1, 0>>}
SolomonTimes == [ready : {0, 5}, due : {3, 100, 200}]
SolomonFiles ==
    {[i \in 1..2 |-> [id |-> ids[i], ready |-> t[i].ready, due |-> t[i].due, service |-> 10]] :
        ids \in SolomonIds, t \in [1..2 -> SolomonTimes]}

\* the row of the file that carries the id
RowOf(rows, id) == rows[CHOOSE k \in DOMAIN rows : rows[k].id = id]

\* load_solomon_txt: the arrays indexed by id, the depot's window widened, one
\* waypoint per index
load_solomon_txt(rows) ==
    LET n == SetMax({rows[k].id : k \in DOMAIN rows}) + 1
        ready == [i \in 0..(n - 1) |-> RowOf(rows, i).ready]
        due == [i \in 0..(n - 1) |-> Larger(ready[i], RowOf(rows, i).due)]
        depot_index == IF \E k \in DOMAIN rows : rows[k].id = 0 THEN 0
                       ELSE CHOOSE m \in {rows[k].id : k \in DOMAIN rows} :
                                \A k \in DOMAIN rows : m <= rows[k].id
        max_due == SetMax({due[i] : i \in 0..(n - 1)})
        ready2 == [ready EXCEPT ![depot_index] = Smaller(@, 0)]
        due2 == [due EXCEPT ![depot_index] = Larger(@, max_due)]
    IN [waypoints |-> [p \in 1..n |->
            [id |-> ToStr(p - 1),
             service_time |-> RowOf(rows, p - 1).service * SECONDS_PER_MIN,
             time_window |-> <<ready2[p - 1] * SECONDS_PER_MIN, due2[p - 1] * SECONDS_PER_MIN>>,
             depot |-> (p - 1 = depot_index)]],
        depot_index |-> depot_index]

\* _parse_solomon_text: one waypoint per row, in the order of the file
parse_solomon_text(rows) ==
    LET ids == {rows[k].id : k \in DOMAIN rows}
        depot_id == IF 0 \in ids THEN 0 ELSE CHOOSE m \in ids : \A o \in ids : m <= o
    IN [waypoints |-> [p \in DOMAIN rows |->
            [id |-> ToStr(rows[p].id),
             service_time |-> rows[p].service * 60,
             time_window |-> <<rows[p].ready * 60, rows[p].due * 60>>,
             depot |-> (rows[p].id = depot_id)]],
        depot_index |-> (CHOOSE p \in DOMAIN rows : rows[p].id = depot_id) - 1]

\* planar files: CAPACITY and VEHICLES lines that may be missing, and sections
\* that may be missing or empty
VrpFiles ==
    [capacity : {Nothing, Some(50)},
     vehicles : {Nothing, Some(2)},
     node_coord : {<<<<1, 0, 0>>, <<2, x, 0>>>> : x \in {30000000, 12}},
     demand : {<<>>, <<<<1, 0>>, <<2, 4>>>>},
     time_window : {<<>>, <<<<1, 0, 100>>, <<2, 10, 50>>>>},
     service_time : {<<>>, <<<<2, 5>>>>},
     depot : {<<>>, <<1>>, <<2>>}]

\* dict.get(idx, default) on the lines of a section: the last line of the index
SectionGet(lines, idx, default) ==
    IF \E k \in DOMAIN lines : lines[k][1] = idx
    THEN Some(lines[CHOOSE k \in DOMAIN lines :
                      lines[k][1] = idx /\ \A o \in DOMAIN lines : lines[o][1] = idx => o <= k])
    ELSE default

\* _parse_vehicle_header on a file with no VEHICLE block
parse_vehicle_header(file) ==
    [num |-> IF file.vehicles.some THEN file.vehicles.val ELSE 1,
     cap |-> IF file.capacity.some THEN file.capacity.val ELSE BigCap]

\* load_vrplib on a file that is not Solomon text; the node lines drawn are in
\* the order of their index
load_vrplib(file) ==
    LET header == parse_vehicle_header(file)
        depot_index == (IF file.depot # <<>> THEN file.depot[1] ELSE 1) - 1
    IN [waypoints |-> [p \in DOMAIN file.node_coord |->
            LET idx1 == file.node_coord[p][1]
                dem == SectionGet(file.demand, idx1, Nothing)
                tw == SectionGet(file.time_window, idx1, Nothing)
                st == SectionGet(file.service_time, idx1, Nothing)
            IN [id |-> ToStr(idx1),
                x |-> file.node_coord[p][2],
                y |-> file.node_coord[p][3],
                demand |-> IF dem.some THEN dem.val[2] ELSE 0,
                service_time |-> IF st.some THEN st.val[2] ELSE 0,
                time_window |-> IF tw.some THEN Some(<<tw.val[2], tw.val[3]>>) ELSE Nothing,
                depot |-> (idx1 - 1 = depot_index)]],
        vehicle_count |-> header.num,
        capacity |-> header.cap,
        depot_index |-> depot_index]

\* write_vrplib(path, waypoints, fleet): the file it writes; a coordinate is
\* written with six decimals, and the capacity is that of the first vehicle
write_vrplib(waypoints, capacity) ==
    [capacity |-> Some(capacity),
     vehicles |-> Nothing,
     node_coord |-> [i \in DOMAIN waypoints |->
                        <<i, Fmt6(waypoints[i].x) * 10, Fmt6(waypoints[i].y) * 10>>],
     demand |-> [i \in DOMAIN waypoints |-> <<i, waypoints[i].demand>>],
     time_window |-> <<>>,
     service_time |-> <<>>,
     depot |-> <<IF \E i \in DOMAIN waypoints : waypoints[i].depot
                 THEN CHOOSE i \in DOMAIN waypoints :
                        waypoints[i].depot /\ \A o \in 1..(i - 1) : ~waypoints[o].depot
                 ELSE 1>>]

LoaderCalls ==
    [fn : {"load_solomon_txt", "parse_solomon_text"}, file : SolomonFiles]
    \cup [fn : {"round_trip"}, file : VrpFiles]

CallLoadSolomonTxt ==
    /\ fnOut = <<>>
    /\ fnCall.fn = "load_solomon_txt"
    /\ fnOut' = load_solomon_txt(fnCall.file)
    /\ UNCHANGED fnCall
    /\ UNCHANGED notFn

CallParseSolomonText ==
    /\ fnOut = <<>>
    /\ fnCall.fn = "parse_solomon_text"
    /\ fnOut' = parse_solomon_text(fnCall.file)
    /\ UNCHANGED fnCall
    /\ UNCHANGED notFn

\* load_vrplib, write_vrplib of what it returned, load_vrplib of the file written
RoundTrip ==
    /\ fnOut = <<>>
    /\ fnCall.fn = "round_trip"
    /\ LET first == load_vrplib(fnCall.file)
           written == write_vrplib(first.waypoints, first.capacity)
       IN fnOut' = [first |-> first, written |-> written, second |-> load_vrplib(written)]
    /\ UNCHANGED fnCall
    /\ UNCHANGED notFn

InitLoaders ==
    /\ fnCall \in LoaderCalls
    /\ fnOut = <<>>
    /\ OthersUnused

NextLoaders == CallLoadSolomonTxt \/ CallParseSolomonText \/ RoundTrip

SpecLoaders == InitLoaders /\ [][NextLoaders]_vars

\* C24: for every Solomon file and either parser, the waypoint of each row has
\* the time window [ready * 60, due * 60] of that row
C24_SolomonWindowsTimes60 ==
    (fnOut # <<>> /\ fnCall.fn \in {"load_solomon_txt", "parse_solomon_text"}) =>
        \A k \in DOMAIN fnCall.file :
            \E p \in DOMAIN fnOut.waypoints :
                /\ fnOut.waypoints[p].id = ToStr(fnCall.file[k].id)
                /\ fnOut.waypoints[p].time_window =
                       <<fnCall.file[k].ready * 60, fnCall.file[k].due * 60>>

\* C25: the instance parsed from a planar file and the instance parsed from the
\* file the writer makes of it are equal: nodes and coordinates, demands, depot,
\* capacity, vehicle count, time windows and service times
C25_WriteThenParseIsEqual ==
    (fnOut # <<>> /\ fnCall.fn = "round_trip") => fnOut.second = fnOut.first

---------------------------------------------------------------------------
(* file_handler/dataset_indexer.py, one call each (SpecIndexer).            *)
(*                                                                         *)
(* A dataset directory is held as the files under it in the order in which  *)
(* rglob("*") visits them, an order the file system chooses; a file is its  *)
(* path relative to the dataset and its size.                               *)

MaxFiles == 3           \* most files under the dataset directory

INSTANCE_EXTS == {".vrp", ".xml", ".txt"}
SOLUTION_EXTS == {".sol", ".xml", ".txt"}
DEFAULT_EXTS == {".vrp", ".xml", ".txt", ".sol", ".json", ".geojson", ".csv"}

UpperChars == "ABCDEFGHIJKLMNOPQRSTUVWXYZ"
\* the characters of a lowered file name, in the order of their codes
LowerChars == "./abcdefghijklmnopqrstuvwxyz"

CharAt(str, i) == SubSeq(str, i, i)
IndexIn(str, c) ==
    IF \E i \in 1..Len(str) : CharAt(str, i) = c
    THEN CHOOSE i \in 1..Len(str) : CharAt(str, i) = c ELSE 0
LastIndexIn(str, c) ==
    IF \E i \in 1..Len(str) : CharAt(str, i) = c
    THEN CHOOSE i \in 1..Len(str) :
            CharAt(str, i) = c /\ \A o \in (i + 1)..Len(str) : CharAt(str, o) # c
    ELSE 0

\* str.lower()
RECURSIVE lower(_)
lower(str) ==
    IF str = "" THEN ""
    ELSE LET c == CharAt(str, 1)
             u == IndexIn(UpperChars, c)
         IN (IF u = 0 THEN c ELSE CharAt(LowerChars, u + 2)) \o lower(SubSeq(str, 2, Len(str)))

\* `sub in str`
Contains(str, sub) ==
    \E i \in 1..(Len(str) + 1) :
        i + Len(sub) - 1 <= Len(str) /\ SubSeq(str, i, i + Len(sub) - 1) = sub

\* a < b for two lowered names
RECURSIVE LexLess(_, _)
LexLess(a, b) ==
    IF b = "" THEN FALSE
    ELSE IF a = "" THEN TRUE
    ELSE LET ra == IndexIn(LowerChars, CharAt(a, 1))
             rb == IndexIn(LowerChars, CharAt(b, 1))
         IN IF ra # rb THEN ra < rb
            ELSE LexLess(SubSeq(a, 2, Len(a)), SubSeq(b, 2, Len(b)))

\* Path(p).name, Path(p).suffix and Path(p).stem
path_name(path) == SubSeq(path, LastIndexIn(path, "/") + 1, Len(path))
path_suffix(path) ==
    LET name == path_name(path)
        i == LastIndexIn(name, ".")
    IN IF 1 < i /\ i < Len(name) THEN SubSeq(name, i, Len(name)) ELSE ""
path_stem(path) ==
    LET name == path_name(path)
    IN SubSeq(name, 1, Len(name) - Len(path_suffix(path)))

FileUniverse ==
    {[relpath |-> "a.vrp", size |-> 2], [relpath |-> "a.sol", size |-> 1],
     [relpath |-> "a.txt", size |-> 3], [relpath |-> "a.b.vrp", size |-> 5],
     [relpath |-> "i/B.VRP", size |-> 4], [relpath |-> "n.csv", size |-> 1]}

\* the visits rglob can make of a directory of at most MaxFiles files
Listings ==
    UNION {{q \in [1..k -> FileUniverse] : \A i, j \in 1..k : i # j => q[i] # q[j]} :
           k \in 0..MaxFiles}

\* FileEntry.from_path
FileEntry(p) == [name |-> path_name(p.relpath), relpath |-> p.relpath, size |-> p.size]

\* _scan_files(root, exts): an empty exts is no filter
scan_files(listing, exts) ==
    LET exts_l == {lower(e) : e \in exts}
        kept == SelectSeq(listing,
                    LAMBDA p : exts = {} \/ lower(path_suffix(p.relpath)) \in exts_l)
    IN [i \in DOMAIN kept |-> FileEntry(kept[i])]

\* f goes before g in files.sort(key, reverse)
SortsBefore(f, g, sort, reverse) ==
    LET less(a, b) == IF sort = "size" THEN a.size < b.size
                      ELSE LexLess(lower(a.name), lower(b.name))
    IN IF reverse THEN less(g, f) ELSE less(f, g)

\* list.sort is stable: an entry goes before the first one it sorts before
RECURSIVE sort_files(_, _, _)
sort_files(files, sort, reverse) ==
    IF files = <<>> THEN <<>>
    ELSE LET done == sort_files(SubSeq(files, 1, Len(files) - 1), sort, reverse)
             f == files[Len(files)]
             after == {i \in DOMAIN done : SortsBefore(f, done[i], sort, reverse)}
             at == IF after = {} THEN Len(done) + 1
                   ELSE CHOOSE i \in after : \A o \in after : i <= o
         IN SubSeq(done, 1, at - 1) \o <<f>> \o SubSeq(done, at, Len(done))

\* list_files(dataset, limit, offset, sort, order, q, exts, kind)
list_files(call) ==
    IF ~call.found THEN [items |-> <<>>, total |-> 0]
    ELSE LET given == IF call.exts.some /\ call.exts.val # {} THEN call.exts.val
                      ELSE DEFAULT_EXTS
             exts_use == IF call.kind = "instances" THEN given \cap INSTANCE_EXTS
                         ELSE IF call.kind = "solutions" THEN given \cap SOLUTION_EXTS
                         ELSE given
             scanned == scan_files(call.listing, exts_use)
             files == IF call.q.some /\ call.q.val # ""
                      THEN SelectSeq(scanned, LAMBDA f :
                               \/ Contains(lower(f.name), lower(call.q.val))
                               \/ Contains(lower(f.relpath), lower(call.q.val)))
                      ELSE scanned
             sorted == sort_files(files, call.sort, lower(call.order) = "desc")
             first == Smaller(call.page.offset + 1, Len(sorted) + 1)
             last == Smaller(call.page.offset + call.page.limit, Len(sorted))
         IN [items |-> SubSeq(sorted, first, last), total |-> Len(sorted)]

\* the loop of find_pair over the files visited
RECURSIVE find_pair_loop(_, _, _, _)
find_pair_loop(listing, target, instance, solution) ==
    IF listing = <<>> \/ (instance.some /\ solution.some)
    THEN [instance |-> instance, solution |-> solution]
    ELSE LET p == Head(listing)
             suf == lower(path_suffix(p.relpath))
             fe == [name |-> path_name(p.relpath), relpath |-> p.relpath,
                    size |-> p.size, ext |-> suf]
         IN IF lower(path_stem(p.relpath)) # target
            THEN find_pair_loop(Tail(listing), target, instance, solution)
            ELSE IF suf \in INSTANCE_EXTS /\ ~instance.some
            THEN find_pair_loop(Tail(listing), target, Some(fe), solution)
            ELSE IF suf \in SOLUTION_EXTS /\ ~solution.some
            THEN find_pair_loop(Tail(listing), target, instance, Some(fe))
            ELSE find_pair_loop(Tail(listing), target, instance, solution)

\* find_pair(dataset, name)
find_pair(listing, found, name) ==
    IF ~found THEN [instance |-> Nothing, solution |-> Nothing]
    ELSE find_pair_loop(listing, lower(path_stem(name)), Nothing, Nothing)

FindNames == {"a", "a.vrp", "a.b", "a.b.vrp", "b"}

IndexerCalls ==
    [fn : {"find_pair"}, found : BOOLEAN, listing : Listings, name : FindNames]
    \cup [fn : {"list_files"}, found : BOOLEAN, listing : Listings,
          kind : {"none", "instances", "solutions"},
          exts : {Nothing, Some({".vrp"}), Some({".csv"})},
          q : {Nothing, Some("B")},
          sort : {"name", "size"}, order : {"asc", "desc"},
          page : {[limit |-> 100, offset |-> 0], [limit |-> 1, offset |-> 1]}]

CallFindPair ==
    /\ fnOut = <<>>
    /\ fnCall.fn = "find_pair"
    /\ fnOut' = find_pair(fnCall.listing, fnCall.found, fnCall.name)
    /\ UNCHANGED fnCall
    /\ UNCHANGED notFn

CallListFiles ==
    /\ fnOut = <<>>
    /\ fnCall.fn = "list_files"
    /\ fnOut' = list_files(fnCall)
    /\ UNCHANGED fnCall
    /\ UNCHANGED notFn

InitIndexer ==
    /\ fnCall \in IndexerCalls
    /\ fnOut = <<>>
    /\ OthersUnused

NextIndexer == CallFindPair \/ CallListFiles

SpecIndexer == InitIndexer /\ [][NextIndexer]_vars

\* C26: find_pair of a file stem returns what find_pair of the stem followed by
\* the instance extension ".vrp" returns, over the same dataset
C26_StemOrNameSamePair ==
    (fnOut # <<>> /\ fnCall.fn = "find_pair" /\ fnCall.name \in {"a", "a.b", "b"}) =>
        fnOut = find_pair(fnCall.listing, fnCall.found, fnCall.name \o ".vrp")

\* C27: every entry of a listing passes every filter of the request: the kind,
\* the extensions given and the text q
C27_ListingPassesFilters ==
    (fnOut # <<>> /\ fnCall.fn = "list_files") =>
        \A i \in DOMAIN fnOut.items :
            LET f == fnOut.items[i]
                ext == lower(path_suffix(f.name))
            IN /\ fnCall.kind = "instances" => ext \in INSTANCE_EXTS
               /\ fnCall.kind = "solutions" => ext \in SOLUTION_EXTS
               /\ fnCall.exts.some => ext \in {lower(e) : e \in fnCall.exts.val}
               /\ fnCall.q.some =>
                     \/ Contains(lower(f.name), lower(fnCall.q.val))
                     \/ Contains(lower(f.relpath), lower(fnCall.q.val))

\* C30: find_pair returns the same instance and solution in whatever order the
\* files of the dataset are visited
C30_PairIndependentOfOrder ==
    (fnOut # <<>> /\ fnCall.fn = "find_pair") =>
        \A other \in Listings :
            {other[i] : i \in DOMAIN other} = {fnCall.listing[i] : i \in DOMAIN fnCall.listing}
                => find_pair(other, fnCall.found, fnCall.name) = fnOut

=============================================================================
